---------------------------- MODULE Spec2Model ----------------------------
(***************************************************************************)
(* Plant-life simulation (js/gameState.js, js/data.js, main.js, ui.js).    *)
(*                                                                         *)
(* Numbers.  The program computes with IEEE doubles; the model computes    *)
(* with fixed-point integers:                                              *)
(*   - "milli" values are the program's value times 1000 (pools and growth *)
(*     scalars 0..100000, unit-interval fields 0..1000, coordinates,       *)
(*     lengths, widths, angles in milli-radians, temperature in            *)
(*     milli-degrees);                                                     *)
(*   - xylemIntegrity and mycorrhizalColonisation are "micro" values       *)
(*     (times 1000000) because their per-tick increments are below 0.001.  *)
(* Products are rounded down after each multiplication.                    *)
(***************************************************************************)
EXTENDS Integers, Sequences, FiniteSets, TLC

\* ------------------------------------------------------------------------
\* Exploration bounds
\* ------------------------------------------------------------------------
MaxTicks   == 3     \* ticks explored from a start state of a tick scenario
MaxInputs  == 2     \* player input events (action / root type / placement) per behaviour
MaxCommits == 2     \* placement commits explored from a start state of a placement scenario
MaxQueries == 2     \* computeCandidates calls explored in the query scenario

\* ------------------------------------------------------------------------
\* Arithmetic helpers
\* ------------------------------------------------------------------------
M == 1000

Null == "null"

NoParent == -1

Max(a, b) == IF a >= b THEN a ELSE b

Min(a, b) == IF a <= b THEN a ELSE b

Abs(a) == IF a < 0 THEN -a ELSE a

\* milli * milli -> milli
Mul(a, b) == (a * b) \div M

clamp(v, lo, hi) == Max(lo, Min(hi, v))

lerp(a, b, t) == a + Mul(b - a, t)

\* Math.round on a milli value, result in whole units
Round(v) == (v + 500) \div M

\* exp(-x) for x >= 0 in milli: exp(-x) = 2^-k * exp(-r), x = k*ln2 + r,
\* exp(-r) by its series up to r^4 (r < 0.694)
ExpNeg(x) ==
  LET k  == x \div 693
      r  == x % 693
      r2 == Mul(r, r)
      r3 == Mul(r2, r)
      r4 == Mul(r3, r)
      e  == M - r + (r2 \div 2) - (r3 \div 6) + (r4 \div 24)
  IN IF k >= 20 THEN 0 ELSE e \div (2 ^ k)

\* Bell curve temperature response, temperatures in milli-degrees, breadth in degrees
_tempFactor(temp, optimum, breadth) ==
  LET d == (temp - optimum) \div 10
  IN Max(0, ExpNeg((d * d) \div (2 * breadth * breadth * 10)))

Pi == 3142

\* sin on [0, pi] (milli-radians) by Bhaskara's rational approximation
SinHalf(x) ==
  LET p == x * (Pi - x)
  IN (((16 * p) \div 40) * M) \div ((5 * Pi * Pi - 4 * p) \div 40)

\* Math.sin / Math.cos on milli-radians, result in milli
Sin(a) ==
  LET x == a % (2 * Pi)
  IN IF x <= Pi THEN SinHalf(x) ELSE -SinHalf(x - Pi)

Cos(a) == Sin(a + Pi \div 2)

\* ------------------------------------------------------------------------
\* Static data (js/data.js), values in milli unless noted
\* ------------------------------------------------------------------------
BIOMES == [
  plains |->
    [sunlight |-> 800, rainfall |-> 550, groundwaterDepth |-> 2,
     soilNutrients |-> 550,
     npk |-> [n |-> 550, p |-> 500, k |-> 600],
     tempRange |-> <<5000, 30000>>, wind |-> 300,
     fungalNetwork |-> 450],
  desert |->
    [sunlight |-> 950, rainfall |-> 80, groundwaterDepth |-> 5,
     soilNutrients |-> 200,
     npk |-> [n |-> 150, p |-> 250, k |-> 200],
     tempRange |-> <<10000, 48000>>, wind |-> 500,
     fungalNetwork |-> 50],
  wetlands |->
    [sunlight |-> 600, rainfall |-> 900, groundwaterDepth |-> 1,
     soilNutrients |-> 700,
     npk |-> [n |-> 700, p |-> 600, k |-> 750],
     tempRange |-> <<8000, 28000>>, wind |-> -200,
     fungalNetwork |-> 550]
]

SEEDS == [
  oak |->
    [lifespan |-> "perennial", deciduous |-> TRUE, growthRate |-> 600,
     startEnergy |-> 60000, startWater |-> 50000, startNutrients |-> 40000,
     npkNeed |-> [n |-> 800, p |-> 1000, k |-> 900],
     trunkStrength |-> 1400, rootEfficiency |-> 1000,
     leafEfficiency |-> 1100, waterNeed |-> 1000,
     stomatalType |-> "normal", tempOptimum |-> 20000,
     cavitationResistance |-> 450, floweringSeason |-> -1,
     pollinatorAttraction |-> 300, cambiumRate |-> 500,
     mycorrhizalAffinity |-> 900,
     herbivorySusceptibility |-> 500, defenseStrength |-> 700],
  wildflower |->
    [lifespan |-> "annual", deciduous |-> FALSE, growthRate |-> 1500,
     startEnergy |-> 30000, startWater |-> 35000, startNutrients |-> 30000,
     npkNeed |-> [n |-> 1100, p |-> 900, k |-> 1000],
     trunkStrength |-> 300, rootEfficiency |-> 700,
     leafEfficiency |-> 1200, waterNeed |-> 800,
     stomatalType |-> "normal", tempOptimum |-> 22000,
     cavitationResistance |-> 350, floweringSeason |-> 1,
     pollinatorAttraction |-> 900, cambiumRate |-> 0,
     mycorrhizalAffinity |-> 700,
     herbivorySusceptibility |-> 800, defenseStrength |-> 200],
  grass |->
    [lifespan |-> "annual", deciduous |-> FALSE, growthRate |-> 2000,
     startEnergy |-> 20000, startWater |-> 30000, startNutrients |-> 25000,
     npkNeed |-> [n |-> 1200, p |-> 700, k |-> 800],
     trunkStrength |-> 100, rootEfficiency |-> 1300,
     leafEfficiency |-> 1000, waterNeed |-> 600,
     stomatalType |-> "normal", tempOptimum |-> 22000,
     cavitationResistance |-> 450, floweringSeason |-> 1,
     pollinatorAttraction |-> 100, cambiumRate |-> 0,
     mycorrhizalAffinity |-> 650,
     herbivorySusceptibility |-> 900, defenseStrength |-> 100],
  willow |->
    [lifespan |-> "perennial", deciduous |-> TRUE, growthRate |-> 1000,
     startEnergy |-> 55000, startWater |-> 70000, startNutrients |-> 60000,
     npkNeed |-> [n |-> 1100, p |-> 1000, k |-> 900],
     trunkStrength |-> 1000, rootEfficiency |-> 1500,
     leafEfficiency |-> 1100, waterNeed |-> 1800,
     stomatalType |-> "normal", tempOptimum |-> 20000,
     cavitationResistance |-> 200, floweringSeason |-> 0,
     pollinatorAttraction |-> 400, cambiumRate |-> 1000,
     mycorrhizalAffinity |-> 750,
     herbivorySusceptibility |-> 600, defenseStrength |-> 400],
  cactus |->
    [lifespan |-> "perennial", deciduous |-> FALSE, growthRate |-> 350,
     startEnergy |-> 40000, startWater |-> 80000, startNutrients |-> 20000,
     npkNeed |-> [n |-> 400, p |-> 900, k |-> 1500],
     trunkStrength |-> 900, rootEfficiency |-> 900,
     leafEfficiency |-> 500, waterNeed |-> 200,
     stomatalType |-> "cam", tempOptimum |-> 32000,
     cavitationResistance |-> 700, floweringSeason |-> 1,
     pollinatorAttraction |-> 0, cambiumRate |-> 400,
     mycorrhizalAffinity |-> 200,
     herbivorySusceptibility |-> 200, defenseStrength |-> 900]
]

RESOURCE_MAX == 100000

ROOT_TYPES == [
  taproot    |-> [waterBonus |-> 1800, nutrientBonus |-> 600,  structuralBonus |-> 500],
  structural |-> [waterBonus |-> 500,  nutrientBonus |-> 700,  structuralBonus |-> 2000],
  surface    |-> [waterBonus |-> 1200, nutrientBonus |-> 1400, structuralBonus |-> 800]
]

DEFAULT_SETTINGS == [
  stomatalRegulation |-> TRUE, npkNutrients |-> TRUE, hydraulicFailure |-> TRUE,
  tempOptima |-> TRUE, flowering |-> TRUE, lifeCycles |-> TRUE, cambiumGrowth |-> TRUE,
  mycorrhizae |-> TRUE, herbivory |-> TRUE, weatherEvents |-> TRUE
]

\* every feature switched off (the simplified behaviour of each subsystem)
NO_SETTINGS == [k \in DOMAIN DEFAULT_SETTINGS |-> FALSE]

\* ------------------------------------------------------------------------
\* Game state (js/gameState.js, second definition of each function: the
\* later definitions of the file are the ones in effect)
\* ------------------------------------------------------------------------
NoFlows == [photoRate |-> 0, waterIn |-> 0, respireCost |-> 0, nIn |-> 0, pIn |-> 0, kIn |-> 0, transpire |-> 0]

\* rnd.sun, rnd.rain, rnd.soil: the three Math.random() draws of the biome variance, milli
createGameState(biome, seed, settings, rnd) ==
  LET b == BIOMES[biome]
      s == SEEDS[seed]
      vary(base, r) == Max(0, Min(M, base + Mul(r - 500, 300)))
  IN [biome |-> biome, seed |-> seed, settings |-> settings,
      day |-> 1, season |-> 0, tick |-> 0, paused |-> TRUE,
      dormant |-> FALSE, dormancyDepth |-> 0, lifeComplete |-> FALSE, speed |-> 0,
      energy |-> s.startEnergy, water |-> s.startWater, o2 |-> 50000, co2 |-> 50000,
      nitrogen   |-> Round(Mul(s.startNutrients, 900)) * M,
      phosphorus |-> Round(Mul(s.startNutrients, 800)) * M,
      potassium  |-> Round(Mul(s.startNutrients, 1000)) * M,
      health |-> 80000,
      env |-> [sunlight |-> vary(b.sunlight, rnd.sun), rainfall |-> vary(b.rainfall, rnd.rain),
               groundwaterDepth |-> b.groundwaterDepth, soilNutrients |-> vary(b.soilNutrients, rnd.soil),
               temperature |-> lerp(b.tempRange[1], b.tempRange[2], 300)],
      activeAction |-> Null, rootType |-> "surface",
      plant |-> [rootDepth |-> 0, rootSpread |-> 0, rootStructural |-> 0, trunkHeight |-> 0,
                 trunkGirth |-> 0, branchCount |-> 0, branchLength |-> 0, leafMass |-> 0,
                 flowerProgress |-> 0, seedsProduced |-> 0, pollinated |-> FALSE, ageInDays |-> 0,
                 growthRings |-> 0, damagedLeaves |-> 0, scarredTrunk |-> FALSE,
                 nodes |-> <<>>, nextNodeId |-> 0,
                 rootGraph |-> [surface |-> <<>>, taproot |-> <<>>, structural |-> <<>>,
                                surfaceArms |-> 0, taprootDepth |-> 0, structuralArms |-> 0]],
      unlocked |-> [trunk |-> FALSE, branches |-> FALSE, leaves |-> FALSE, flower |-> FALSE],
      placement |-> [mode |-> Null, candidates |-> <<>>, hoveredId |-> Null],
      flowering |-> FALSE, log |-> <<>>, stomata |-> M, xylemIntegrity |-> M * M,
      cavitationEvents |-> 0, mycorrhizalColonisation |-> 0, mycorrhizalBonus |-> 0,
      herbivorePressure |-> 0, herbivoreEvent |-> FALSE,
      activeWeatherEvent |-> Null, weatherEventTimer |-> 0, weatherEventLog |-> 0,
      flows |-> NoFlows]

\* gs.log.unshift(...); if (gs.log.length > 40) gs.log.pop()
addLog(g, msg) ==
  LET l == <<[day |-> g.day, msg |-> msg]>> \o g.log
  IN [g EXCEPT !.log = IF Len(l) > 40 THEN SubSeq(l, 1, 40) ELSE l]

\* addLog when cond holds
logIf(g, cond, msg) == IF cond THEN addLog(g, msg) ELSE g

\* rnd.sun, rnd.rain, rnd.temp: Math.random() draws, milli in 0..999
updateEnvironment(g, rnd) ==
  LET b == BIOMES[g.biome]
      seasonSunMod  == <<850, 1150, 900, 600>>[g.season + 1]
      seasonRainMod == <<1100, 800, 1000, 900>>[g.season + 1]
      tempFraction  == <<300, 900, 600, 50>>[g.season + 1]
      vary(val, r, delta) == val + Mul(r - 500, 2 * delta)
  IN [g EXCEPT !.env.sunlight    = clamp(vary(Mul(b.sunlight, seasonSunMod), rnd.sun, 50), 0, M),
               !.env.rainfall    = clamp(vary(Mul(b.rainfall, seasonRainMod), rnd.rain, 80), 0, M),
               !.env.temperature = lerp(b.tempRange[1], b.tempRange[2], tempFraction) + (rnd.temp - 500) * 3]

updateStomata(g) ==
  LET waterStress == clamp((g.water - 10000) \div 25, 0, M)
      optTemp     == SEEDS[g.seed].tempOptimum
      tempDelta   == Abs(g.env.temperature - optTemp)
      tempStress  == clamp(M - (tempDelta \div 20), 100, M)
      camFactor   == IF SEEDS[g.seed].stomatalType = "cam" THEN 150 ELSE M
      st          == clamp(Mul(Mul(waterStress, tempStress), camFactor), 0, M)
      g1          == [g EXCEPT !.stomata = st]
  IN IF st < 200 /\ g.tick % 30 = 0 THEN addLog(g1, "stomata closed")
     ELSE IF st < 500 /\ g.tick % 60 = 0 THEN addLog(g1, "stomata partial")
     ELSE g1

updateHydraulicsEveryTick(g) ==
  LET leafArea        == g.plant.leafMass \div 100
      transpireDemand == Mul(Mul(leafArea, SEEDS[g.seed].waterNeed), M - Mul(g.stomata, 700))
      waterDeficit    == Max(0, (30000 - g.water) \div 30)
      tension         == Mul(transpireDemand, waterDeficit)
      cavitationThreshold == SEEDS[g.seed].cavitationResistance
      damage          == (tension - cavitationThreshold) * 8
  IN IF tension > cavitationThreshold
     THEN [g EXCEPT !.xylemIntegrity = clamp(g.xylemIntegrity - damage, 50000, M * M)]
     ELSE g

updateHydraulics(g) ==
  LET leafArea        == g.plant.leafMass \div 100
      transpireDemand == Mul(Mul(leafArea, SEEDS[g.seed].waterNeed), M - Mul(g.stomata, 700))
      waterDeficit    == Max(0, (30000 - g.water) \div 30)
      tension         == Mul(transpireDemand, waterDeficit)
      cavitationThreshold == SEEDS[g.seed].cavitationResistance
      cavitates       == tension > cavitationThreshold /\ g.tick % 5 = 0
      damage          == (tension - cavitationThreshold) * 8          \* micro
      counted         == cavitates /\ damage > 2000
      g1 == IF cavitates
            THEN [g EXCEPT !.xylemIntegrity = clamp(g.xylemIntegrity - damage, 50000, M * M),
                           !.cavitationEvents = IF counted THEN @ + 1 ELSE @]
            ELSE g
      g2 == logIf(g1, counted /\ g1.cavitationEvents % 5 = 1, "xylem cavitation")
      recovery == (200 * ((g2.plant.trunkGirth \div 50) + 100)) \div M   \* micro
  IN IF g2.xylemIntegrity < M * M /\ g2.water > 50000 /\ g2.health > 60000
     THEN [g2 EXCEPT !.xylemIntegrity = clamp(g2.xylemIntegrity + recovery, 0, M * M)]
     ELSE g2

\* variant of growCost: the same cost whatever the action
growCostFlat(action) ==
  IF action = Null THEN [energy |-> 0, water |-> 0, nutrients |-> 0]
  ELSE [energy |-> 2000, water |-> 800, nutrients |-> 600]

\* growCostEnergy, growCostWater, growCostNutrients of the selected action
growCost(action) ==
  IF action = Null THEN [energy |-> 0, water |-> 0, nutrients |-> 0]
  ELSE [energy |-> 2000,
        water |-> IF action = "roots" THEN 1500 ELSE 800,
        nutrients |-> IF action = "trunk" THEN 1200 ELSE IF action = "branches" THEN 1000 ELSE 600]

computeResourceFlows(g) ==
  LET plant == g.plant
      env   == g.env
      seed  == SEEDS[g.seed]
      rt    == ROOT_TYPES[g.rootType]
      leafArea    == plant.leafMass \div 100
      sunFactor   == Mul(env.sunlight, seed.leafEfficiency)
      tempOpt     == seed.tempOptimum
      photoTempF  == IF g.settings.tempOptima THEN _tempFactor(env.temperature, tempOpt, 8) ELSE M
      co2Factor   == Mul(clamp(g.co2 \div 60, 100, 1500), g.stomata)
      actionBonus == IF g.activeAction = "leaves" THEN 1300 ELSE M
      photoRate   == Mul(Mul(Mul(Mul(Mul(leafArea, sunFactor), co2Factor), 3500), photoTempF), actionBonus)
      photoRateEff == Mul(photoRate, M - Mul(g.dormancyDepth, 900))
      seedEnergy  == IF plant.leafMass < 5000 THEN 3500 ELSE 0
      biomass     == (plant.trunkHeight + plant.branchLength + plant.leafMass + plant.rootSpread) \div 100
      respireCost == Max(400, Mul(biomass, 1500))
      heatStress  == IF g.settings.tempOptima THEN Max(0, (env.temperature - (tempOpt + 12000)) \div 15) ELSE 0
      coldStress  == IF g.settings.tempOptima THEN Max(0, ((tempOpt - 15000) - env.temperature) \div 15) ELSE 0
      respireMod  == M + Mul(heatStress, 1500) + Mul(coldStress, 500)
      transpire   == Mul(Mul(Mul(leafArea, 800), seed.waterNeed), g.stomata)
      transpireEff == Mul(transpire, M - Mul(g.dormancyDepth, 800))
      rootTotal   == (plant.rootSpread + plant.rootDepth + plant.rootStructural) \div 100
      rainCapture == Mul(Mul(Mul(env.rainfall, plant.rootSpread \div 100), rt.waterBonus), 4500)
      tapCapture  == Mul(Mul(Mul(5000 \div env.groundwaterDepth, plant.rootDepth \div 100), rt.waterBonus), 2000)
      mycoBonus   == g.mycorrhizalBonus
      waterIn     == Mul(Mul(Mul(rainCapture + tapCapture, seed.rootEfficiency), g.xylemIntegrity \div M),
                         M + Mul(mycoBonus, 400))
      npk         == BIOMES[g.biome].npk
      need        == seed.npkNeed
      base        == Mul(Mul(rootTotal, rt.nutrientBonus), seed.rootEfficiency)
      nutIn       == Mul(Mul(Mul(Mul(rootTotal, BIOMES[g.biome].soilNutrients), rt.nutrientBonus),
                             seed.rootEfficiency), 1500)
      nIn == IF g.settings.npkNutrients
             THEN Mul(Mul(Mul(base, npk.n), 1500), need.n)
             ELSE Mul(nutIn, 500)
      pIn == IF g.settings.npkNutrients
             THEN Mul(Mul(Mul(Mul(base, npk.p), 1200), need.p), M + Mul(mycoBonus, 800))
             ELSE Mul(Mul(nutIn, 300), M + Mul(mycoBonus, 800))
      kIn == IF g.settings.npkNutrients
             THEN Mul(Mul(Mul(base, npk.k), 1000), need.k)
             ELSE Mul(nutIn, 200)
      o2Out       == Mul(Mul(leafArea, sunFactor), 1500)
      co2Consumed == Mul(Mul(leafArea, sunFactor), 800)
      o2Consumed  == Mul(rootTotal, 300)
      cost        == growCost(g.activeAction)
  IN [g EXCEPT
        !.energy     = clamp(g.energy + photoRateEff + seedEnergy - Mul(respireCost, respireMod) - cost.energy, 0, RESOURCE_MAX),
        !.water      = clamp(g.water + waterIn - transpireEff - cost.water, 0, RESOURCE_MAX),
        !.nitrogen   = clamp(g.nitrogen   + nIn - Mul(cost.nutrients, 500), 0, RESOURCE_MAX),
        !.phosphorus = clamp(g.phosphorus + pIn - Mul(cost.nutrients, 300), 0, RESOURCE_MAX),
        !.potassium  = clamp(g.potassium  + kIn - Mul(cost.nutrients, 200), 0, RESOURCE_MAX),
        !.o2         = clamp(g.o2 + o2Out - o2Consumed, 0, RESOURCE_MAX),
        !.co2        = clamp(g.co2 - co2Consumed + Mul(respireCost, 300), 0, RESOURCE_MAX),
        !.flows      = [photoRate |-> photoRate, waterIn |-> waterIn, respireCost |-> respireCost,
                        nIn |-> nIn, pIn |-> pIn, kIn |-> kIn, transpire |-> transpire]]

\* an allocator without gates: the selected root action always grows
applyGrowthUngated(g) ==
  IF g.activeAction = "roots" THEN [g EXCEPT !.plant.rootSpread = clamp(@ + 100, 0, 100000)] ELSE g

applyGrowth(g) ==
  IF g.activeAction = Null THEN g
  ELSE IF g.energy < 5000 \/ g.water < 3000 THEN g
  ELSE IF g.dormant THEN g
  ELSE
  LET plant == g.plant
      seed  == SEEDS[g.seed]
      rt    == ROOT_TYPES[g.rootType]
      spd   == Mul(seed.growthRate, 600)
      nFactor == IF g.settings.npkNutrients THEN clamp(g.nitrogen   \div 30, 100, 1500) ELSE M
      pFactor == IF g.settings.npkNutrients THEN clamp(g.phosphorus \div 30, 100, 1500) ELSE M
      kFactor == IF g.settings.npkNutrients THEN clamp(g.potassium  \div 30, 500, 1200) ELSE M
      spdR == Mul(Mul(spd, pFactor), kFactor)
      spdT == Mul(spd, pFactor)
      spdB == Mul(Mul(spd, nFactor), kFactor)
      spdL == Mul(spd, nFactor)
      totalAnchor  == plant.rootStructural + Mul(plant.rootDepth, 500) + Mul(plant.rootSpread, 300)
      supportRatio == clamp((totalAnchor * M) \div Max(8000, Mul(plant.trunkHeight, 800)), 0, M)
      trunkGain    == Mul(Mul(spdT, seed.trunkStrength), supportRatio)
      trunkSupport == plant.trunkHeight \div 20
      branchGain   == Mul(spdB, Min(M, trunkSupport))
      branchBase   == Max(200, (plant.branchLength \div 15) + (plant.trunkHeight \div 30))
      totalRoots   == plant.rootSpread + plant.rootDepth + plant.rootStructural
      rootBalance  == clamp((totalRoots * M) \div Max(10000, Mul(plant.leafMass, 1500)), 0, M)
      leafGain     == Mul(Mul(Mul(spdL, branchBase), seed.leafEfficiency), rootBalance)
  IN CASE g.activeAction = "roots" /\ g.rootType = "taproot" ->
            [g EXCEPT !.plant.rootDepth      = clamp(@ + Mul(spdR, rt.waterBonus), 0, 100000),
                      !.plant.rootStructural = clamp(@ + Mul(spdR, 300), 0, 100000)]
       [] g.activeAction = "roots" /\ g.rootType = "structural" ->
            [g EXCEPT !.plant.rootStructural = clamp(@ + Mul(spdR, rt.structuralBonus), 0, 100000),
                      !.plant.rootSpread     = clamp(@ + Mul(spdR, 400), 0, 100000),
                      !.plant.rootDepth      = clamp(@ + Mul(spdR, 500), 0, 100000)]
       [] g.activeAction = "roots" /\ g.rootType \notin {"taproot", "structural"} ->
            [g EXCEPT !.plant.rootSpread     = clamp(@ + Mul(spdR, rt.nutrientBonus), 0, 100000),
                      !.plant.rootDepth      = clamp(@ + Mul(spdR, 200), 0, 100000)]
       [] g.activeAction = "trunk" /\ g.unlocked.trunk ->
            [g EXCEPT !.plant.trunkHeight = clamp(@ + trunkGain, 0, 100000),
                      !.plant.trunkGirth  = clamp(@ + Mul(trunkGain, 400), 0, 100000)]
       [] g.activeAction = "branches" /\ g.unlocked.branches ->
            [g EXCEPT !.plant.branchCount  = clamp(@ + Mul(branchGain, 500), 0, 100000),
                      !.plant.branchLength = clamp(@ + branchGain, 0, 100000)]
       [] g.activeAction = "leaves" /\ g.unlocked.leaves ->
            [g EXCEPT !.plant.leafMass = clamp(@ + leafGain, 0, 100000)]
       [] OTHER -> g

\* ------------------------------------------------------------------------
\* Persistent root fractal graph
\* ------------------------------------------------------------------------
\* floor(1000 * frac(sin(seed + 1) * 43758.5453)) for every seed that
\* _recurseRoot can pass (armSeed * 1000 + segIndex * 37 + depth * 13 [+7, +17])
SeededRandTable ==
  (13 :> 536 @@ 20 :> 833 @@ 26 :> 619 @@ 30 :> 900 @@ 33 :> 888 @@ 39 :> 67) @@
  (43 :> 610 @@ 46 :> 380 @@ 50 :> 253 @@ 52 :> 108 @@ 56 :> 935 @@ 57 :> 662) @@
  (59 :> 930 @@ 63 :> 1 @@ 67 :> 990 @@ 69 :> 330 @@ 70 :> 768 @@ 76 :> 548) @@
  (80 :> 17 @@ 83 :> 341 @@ 87 :> 978 @@ 93 :> 129 @@ 94 :> 538 @@ 100 :> 990) @@
  (104 :> 787 @@ 107 :> 229 @@ 113 :> 599 @@ 117 :> 201 @@ 120 :> 701 @@ 130 :> 416) @@
  (420 :> 158 @@ 427 :> 527 @@ 433 :> 906 @@ 437 :> 450 @@ 440 :> 704 @@ 450 :> 869) @@
  (457 :> 955 @@ 464 :> 313 @@ 470 :> 323 @@ 474 :> 225 @@ 477 :> 879 @@ 487 :> 669) @@
  (790 :> 66 @@ 797 :> 614 @@ 803 :> 687 @@ 807 :> 482 @@ 810 :> 344 @@ 820 :> 160) @@
  (827 :> 700 @@ 834 :> 43 @@ 840 :> 957 @@ 844 :> 257 @@ 847 :> 333 @@ 857 :> 540) @@
  (1026 :> 878 @@ 1033 :> 280 @@ 1039 :> 557 @@ 1043 :> 0 @@ 1046 :> 277 @@ 1050 :> 995) @@
  (1056 :> 453 @@ 1057 :> 794 @@ 1063 :> 407 @@ 1067 :> 711 @@ 1070 :> 16 @@ 1080 :> 19) @@
  (1087 :> 482 @@ 1094 :> 215 @@ 1100 :> 306 @@ 1104 :> 571 @@ 1107 :> 55 @@ 1117 :> 525) @@
  (1420 :> 396 @@ 1427 :> 109 @@ 1437 :> 374 @@ 1457 :> 697 @@ 1464 :> 71 @@ 1474 :> 285) @@
  (1790 :> 546 @@ 1797 :> 887 @@ 1807 :> 399 @@ 1827 :> 947 @@ 1834 :> 350 @@ 1844 :> 492) @@
  (2026 :> 733 @@ 2033 :> 203 @@ 2039 :> 460 @@ 2043 :> 160 @@ 2046 :> 755 @@ 2050 :> 632) @@
  (2056 :> 729 @@ 2057 :> 403 @@ 2063 :> 928 @@ 2067 :> 801 @@ 2070 :> 168 @@ 2080 :> 206) @@
  (2087 :> 483 @@ 2094 :> 498 @@ 2100 :> 732 @@ 2104 :> 364 @@ 2107 :> 406 @@ 2117 :> 328) @@
  (2420 :> 381 @@ 2427 :> 625 @@ 2437 :> 542 @@ 2457 :> 315 @@ 2464 :> 387 @@ 2474 :> 175) @@
  (2790 :> 999 @@ 2797 :> 427 @@ 2807 :> 174 @@ 2827 :> 554 @@ 2834 :> 123 @@ 2844 :> 863) @@
  (3026 :> 41 @@ 3033 :> 108 @@ 3039 :> 922 @@ 3043 :> 157 @@ 3046 :> 194 @@ 3050 :> 268) @@
  (3056 :> 206 @@ 3057 :> 972 @@ 3063 :> 482 @@ 3067 :> 116 @@ 3070 :> 288 @@ 3080 :> 243) @@
  (3087 :> 112 @@ 3094 :> 939 @@ 3100 :> 621 @@ 3104 :> 311 @@ 3107 :> 684 @@ 3117 :> 914) @@
  (3420 :> 172 @@ 3427 :> 605 @@ 3437 :> 925 @@ 3457 :> 36 @@ 3464 :> 827 @@ 3474 :> 918) @@
  (3790 :> 608 @@ 3797 :> 519 @@ 3807 :> 505 @@ 3827 :> 995 @@ 3834 :> 139 @@ 3844 :> 750) @@
  (4026 :> 615 @@ 4033 :> 349 @@ 4039 :> 568 @@ 4043 :> 130 @@ 4046 :> 791 @@ 4050 :> 742) @@
  (4056 :> 44 @@ 4057 :> 666 @@ 4063 :> 955 @@ 4067 :> 786 @@ 4070 :> 568 @@ 4080 :> 511) @@
  (4087 :> 940 @@ 4094 :> 795 @@ 4100 :> 564 @@ 4104 :> 148 @@ 4107 :> 937 @@ 4117 :> 247) @@
  (4120 :> 912 @@ 4127 :> 946 @@ 4137 :> 319 @@ 4157 :> 437 @@ 4164 :> 21 @@ 4174 :> 230) @@
  (4420 :> 392 @@ 4427 :> 961 @@ 4437 :> 828 @@ 4457 :> 978 @@ 4464 :> 59 @@ 4474 :> 250) @@
  (4490 :> 780 @@ 4497 :> 240 @@ 4507 :> 927 @@ 4527 :> 679 @@ 4534 :> 774 @@ 4544 :> 467) @@
  (4790 :> 880 @@ 4797 :> 80 @@ 4807 :> 373 @@ 4827 :> 112 @@ 4834 :> 720 @@ 4844 :> 578) @@
  (5026 :> 551 @@ 5033 :> 233 @@ 5039 :> 22 @@ 5043 :> 607 @@ 5046 :> 972 @@ 5050 :> 363) @@
  (5056 :> 971 @@ 5057 :> 433 @@ 5063 :> 33 @@ 5067 :> 515 @@ 5070 :> 461 @@ 5080 :> 209) @@
  (5087 :> 698 @@ 5094 :> 514 @@ 5100 :> 208 @@ 5104 :> 490 @@ 5107 :> 746 @@ 5117 :> 646) @@
  (5420 :> 205 @@ 5427 :> 403 @@ 5437 :> 845 @@ 5457 :> 534 @@ 5464 :> 56 @@ 5474 :> 113) @@
  (5790 :> 884 @@ 5797 :> 198 @@ 5807 :> 933 @@ 5827 :> 164 @@ 5834 :> 860 @@ 5844 :> 752) @@
  (6026 :> 134 @@ 6033 :> 425 @@ 6039 :> 764 @@ 6043 :> 728 @@ 6046 :> 724 @@ 6050 :> 703) @@
  (6056 :> 743 @@ 6057 :> 317 @@ 6063 :> 424 @@ 6067 :> 615 @@ 6070 :> 663 @@ 6080 :> 750) @@
  (6087 :> 485 @@ 6094 :> 424 @@ 6100 :> 256 @@ 6104 :> 472 @@ 6107 :> 61 @@ 6117 :> 189) @@
  (6420 :> 622 @@ 6427 :> 332 @@ 6437 :> 99 @@ 6457 :> 447 @@ 6464 :> 127 @@ 6474 :> 815) @@
  (6790 :> 891 @@ 6797 :> 908 @@ 6807 :> 50 @@ 6827 :> 532 @@ 6834 :> 242 @@ 6844 :> 208) @@
  (7039 :> 940 @@ 7046 :> 668 @@ 7056 :> 890 @@ 7063 :> 416 @@ 7070 :> 913 @@ 7080 :> 675) @@
  (7100 :> 793 @@ 7107 :> 31 @@ 7117 :> 316 @@ 7420 :> 389 @@ 7427 :> 703 @@ 7437 :> 274) @@
  (7457 :> 218 @@ 7464 :> 810 @@ 7474 :> 547 @@ 7790 :> 284 @@ 7797 :> 133 @@ 7807 :> 399) @@
  (7820 :> 21 @@ 7827 :> 59 @@ 7834 :> 245 @@ 7837 :> 506 @@ 7844 :> 128 @@ 7857 :> 724) @@
  (7864 :> 819 @@ 7874 :> 490 @@ 8039 :> 73 @@ 8046 :> 473 @@ 8056 :> 827 @@ 8063 :> 923) @@
  (8070 :> 720 @@ 8080 :> 965 @@ 8100 :> 102 @@ 8107 :> 629 @@ 8117 :> 484 @@ 8190 :> 932) @@
  (8197 :> 724 @@ 8207 :> 402 @@ 8227 :> 848 @@ 8234 :> 463 @@ 8244 :> 460 @@ 8420 :> 86) @@
  (8427 :> 460 @@ 8437 :> 632 @@ 8457 :> 785 @@ 8464 :> 521 @@ 8474 :> 339 @@ 8790 :> 757) @@
  (8797 :> 557 @@ 8807 :> 775 @@ 8827 :> 102 @@ 8834 :> 52 @@ 8844 :> 98)

\* Simple deterministic hash -> 0..1 (milli)
_seededRand(seed) == SeededRandTable[seed]

RECURSIVE _recurseRoot(_, _, _, _, _, _, _, _, _)
_recurseRoot(x, y, angle, length, depth, width, rootType, armSeed, segIndex) ==
  IF depth <= 0 \/ length < 2500 THEN <<>>
  ELSE
  LET key  == armSeed * 1000 + segIndex * 37 + depth * 13
      rng  == _seededRand(key)
      rng2 == _seededRand(key + 7)
      rng3 == _seededRand(key + 17)
      wobbleAmt == IF rootType = "taproot" THEN 80 ELSE 140
      wobble    == Mul(rng - 500, wobbleAmt)
      a         == angle + wobble
      ex        == x + Mul(Cos(a), length)
      ey        == y + Mul(Sin(a), length)
      lateralWobble == IF rootType = "surface" THEN Mul(Mul(rng2 - 500, length), 350)
                                               ELSE Mul(Mul(rng2 - 500, length), 220)
      depthWobble   == IF rootType = "surface" THEN Mul(Mul(rng3 - 500, length), 60)
                                               ELSE Mul(Mul(rng3 - 500, length), 150)
      mx   == ((x + ex) \div 2) + lateralWobble
      my   == ((y + ey) \div 2) + depthWobble
      maxW == IF rootType = "structural" THEN Mul(width, 1600)
              ELSE IF rootType = "taproot" THEN Mul(width, 1400)
              ELSE Mul(width, 1200)
      seg  == [x1 |-> x, y1 |-> y, x2 |-> ex, y2 |-> ey, cpx |-> mx, cpy |-> my,
               width |-> Mul(width, 350), maxWidth |-> maxW, rootType |-> rootType]
      childCount == IF depth > 1 THEN 2 ELSE 1
      childLen   == Mul(length, 600)
      childW     == Mul(width, 580)
      childAngle(i) ==
        LET fraction == IF childCount = 1 THEN 0 ELSE IF i = 0 THEN -500 ELSE 500
        IN IF rootType = "surface"
           THEN LET ca == a + Mul(fraction, 350)
                IN IF Cos(ca) > 0 THEN Min(ca, 380) ELSE Max(ca, Pi - 380)
           ELSE IF rootType = "taproot"
           THEN Mul(a + Mul(fraction, 180), 250) + Mul(Pi \div 2, 750)
           ELSE Mul(a + Mul(fraction, 280), 800) + Mul(a + 200, 200)
      child(i) == _recurseRoot(ex, ey, childAngle(i), childLen, depth - 1, childW, rootType,
                               armSeed, segIndex * 10 + i + 1)
  IN <<seg>> \o child(0) \o (IF childCount = 2 THEN child(1) ELSE <<>>)

_buildRootSegments(startX, startY, angle, length, depth, width, rootType, armSeed) ==
  _recurseRoot(startX, startY, angle, length, depth, width, rootType, armSeed, 0)

\* the segments of surface arm armIndex, built at the current rootSpread
surfaceArm(plant, armIndex) ==
  LET side == IF armIndex % 2 = 0 THEN 1 ELSE -1
      fan  == armIndex \div 2
      dipAngle  == Min(520, 140 + fan * 210)
      baseAngle == IF side > 0 THEN dipAngle ELSE Pi - dipAngle
      segLen    == 20000 + Mul(plant.rootSpread, 2000)
  IN _buildRootSegments(0, 0, baseAngle, segLen, 3, 1400, "surface", armIndex)

\* the segments of structural arm armIndex, built at the current rootStructural
structuralArm(plant, armIndex) ==
  LET side == IF armIndex % 2 = 0 THEN 1 ELSE -1
      fan  == armIndex \div 2
      baseAngle == IF side > 0 THEN 500 + fan * 280 ELSE Pi - 500 - fan * 280
      segLen    == 16000 + Mul(plant.rootStructural, 900)
  IN _buildRootSegments(0, 0, baseAngle, segLen, 2, 2800, "structural", armIndex)

\* the loop "for (a = 0; a < newArms; a++)" over arms from..to-1
RECURSIVE newArmSegments(_, _, _, _)
newArmSegments(plant, kind, from, to) ==
  IF from >= to THEN <<>>
  ELSE (IF kind = "surface" THEN surfaceArm(plant, from) ELSE structuralArm(plant, from))
       \o newArmSegments(plant, kind, from + 1, to)

\* variant of thicken: the width is not capped at maxWidth
thickenUncapped(segs, scale) ==
  SubSeq([i \in DOMAIN segs |-> [segs[i] EXCEPT !.width = segs[i].width + scale]], 1, Len(segs))

\* s.width = Math.min(s.width + scale, s.maxWidth) on every segment of the array
thicken(segs, scale) ==
  SubSeq([i \in DOMAIN segs |-> [segs[i] EXCEPT !.width = Min(segs[i].width + scale, segs[i].maxWidth)]],
         1, Len(segs))

\* variant of surfaceSegments: every arm is rebuilt when a new arm is due
surfaceSegmentsRebuilt(plant) ==
  LET rg == plant.rootGraph
      targetSurfaceArms == Max(0, plant.rootSpread \div 12000)
  IN IF targetSurfaceArms > rg.surfaceArms
     THEN newArmSegments(plant, "surface", 0, targetSurfaceArms)
     ELSE rg.surface

\* surface roots: one new arm per 12 units of rootSpread, appended
surfaceSegments(plant) ==
  LET rg == plant.rootGraph
      targetSurfaceArms == Max(0, plant.rootSpread \div 12000)
  IN IF targetSurfaceArms > rg.surfaceArms
     THEN rg.surface \o newArmSegments(plant, "surface", rg.surfaceArms, targetSurfaceArms)
     ELSE rg.surface

\* tap root: cleared and rebuilt with deeper recursion when the target depth rises
taprootSegments(plant) ==
  LET rg == plant.rootGraph
      targetDepth == Min(4, 1 + (plant.rootDepth \div 22000))
      rootLen     == Mul(plant.rootDepth, 2600)
  IN IF targetDepth > rg.taprootDepth
     THEN _buildRootSegments(0, 0, Pi \div 2, rootLen, targetDepth, 2200, "taproot", 0)
     ELSE rg.taproot

\* structural roots: one new arm per 15 units of rootStructural, appended
structuralSegments(plant) ==
  LET rg == plant.rootGraph
      targetStructArms == Max(0, plant.rootStructural \div 15000)
  IN IF targetStructArms > rg.structuralArms
     THEN rg.structural \o newArmSegments(plant, "structural", rg.structuralArms, targetStructArms)
     ELSE rg.structural

\* variant of updateRootGraph: the arm counters follow the current targets
updateRootGraphTracking(g) ==
  LET plant == g.plant
      rg    == plant.rootGraph
      targetSurfaceArms == Max(0, plant.rootSpread \div 12000)
      targetDepth       == Min(4, 1 + (plant.rootDepth \div 22000))
      targetStructArms  == Max(0, plant.rootStructural \div 15000)
      surfScale == 12 + (plant.rootSpread \div 3000)
      tapScale  == 18 + (plant.rootDepth \div 2500)
      struScale == 20 + (plant.rootStructural \div 2200)
  IN [g EXCEPT !.plant.rootGraph =
        [surface    |-> thicken(surfaceSegments(plant), surfScale),
         taproot    |-> thicken(taprootSegments(plant), tapScale),
         structural |-> thicken(structuralSegments(plant), struScale),
         surfaceArms    |-> targetSurfaceArms,
         taprootDepth   |-> Max(targetDepth, rg.taprootDepth),
         structuralArms |-> targetStructArms]]

\* updateRootGraph(gs): new arms and depth levels, then the thickening of every segment
updateRootGraph(g) ==
  LET plant == g.plant
      rg    == plant.rootGraph
      targetSurfaceArms == Max(0, plant.rootSpread \div 12000)
      targetDepth       == Min(4, 1 + (plant.rootDepth \div 22000))
      targetStructArms  == Max(0, plant.rootStructural \div 15000)
      surfScale == 12 + (plant.rootSpread \div 3000)
      tapScale  == 18 + (plant.rootDepth \div 2500)
      struScale == 20 + (plant.rootStructural \div 2200)
  IN [g EXCEPT !.plant.rootGraph =
        [surface    |-> thicken(surfaceSegments(plant), surfScale),
         taproot    |-> thicken(taprootSegments(plant), tapScale),
         structural |-> thicken(structuralSegments(plant), struScale),
         surfaceArms    |-> Max(targetSurfaceArms, rg.surfaceArms),
         taprootDepth   |-> Max(targetDepth, rg.taprootDepth),
         structuralArms |-> Max(targetStructArms, rg.structuralArms)]]

\* variant of seedBaseNode: nextNodeId is not advanced
seedBaseNodeNoThreshold(g) ==
  IF Len(g.plant.nodes) = 0
  THEN addLog([g EXCEPT !.plant.nodes = Append(@,
                          [type |-> "trunk", id |-> g.plant.nextNodeId, parentId |-> NoParent,
                           x |-> 0, y |-> -6000, angle |-> -(Pi \div 2), length |-> 6000,
                           thickness |-> 2000, size |-> 0, children |-> <<>>]),
                        !.plant.nextNodeId = @ + 1],
              "seedling sprouted")
  ELSE g

seedBaseNodeSameId(g) ==
  IF g.plant.leafMass >= 500 /\ Len(g.plant.nodes) = 0
  THEN addLog([g EXCEPT !.plant.nodes = Append(@,
                          [type |-> "trunk", id |-> g.plant.nextNodeId, parentId |-> NoParent,
                           x |-> 0, y |-> -6000, angle |-> -(Pi \div 2), length |-> 6000,
                           thickness |-> 2000, size |-> 0, children |-> <<>>])],
              "seedling sprouted")
  ELSE g

\* ------------------------------------------------------------------------
\* Node graph seeding, unlock gates, health
\* ------------------------------------------------------------------------
seedBaseNode(g) ==
  IF g.plant.leafMass >= 500 /\ Len(g.plant.nodes) = 0
  THEN addLog([g EXCEPT !.plant.nodes = Append(@,
                          [type |-> "trunk", id |-> g.plant.nextNodeId, parentId |-> NoParent,
                           x |-> 0, y |-> -6000, angle |-> -(Pi \div 2), length |-> 6000,
                           thickness |-> 2000, size |-> 0, children |-> <<>>]),
                        !.plant.nextNodeId = @ + 1],
              "seedling sprouted")
  ELSE g

anchorScore(plant) == plant.rootStructural + Mul(plant.rootDepth, 500) + Mul(plant.rootSpread, 300)

checkUnlocksRevocable(g) ==
  LET score == anchorScore(g.plant)
      g1 == [g EXCEPT !.unlocked.trunk = score >= 8000]
      g3 == [g1 EXCEPT !.unlocked.leaves = Len(g1.plant.nodes) > 0]
  IN [g3 EXCEPT !.unlocked.branches = g3.plant.trunkHeight >= 16000]

\* variant of checkUnlocks: the trunk unlocks at the anchor score of the hint
checkUnlocksEager(g) ==
  LET score == anchorScore(g.plant)
      g1 == IF ~g.unlocked.trunk /\ score >= 4000
            THEN addLog([g EXCEPT !.unlocked.trunk = TRUE], "trunk unlocked") ELSE g
      g3 == IF ~g1.unlocked.leaves /\ Len(g1.plant.nodes) > 0
            THEN addLog([g1 EXCEPT !.unlocked.leaves = TRUE], "leaves unlocked") ELSE g1
  IN IF ~g3.unlocked.branches /\ g3.plant.trunkHeight >= 16000
     THEN addLog([g3 EXCEPT !.unlocked.branches = TRUE], "branches unlocked") ELSE g3

checkUnlocks(g) ==
  LET score == anchorScore(g.plant)
      g1 == IF ~g.unlocked.trunk /\ score >= 8000
            THEN addLog([g EXCEPT !.unlocked.trunk = TRUE], "trunk unlocked") ELSE g
      g2 == logIf(g1, ~g1.unlocked.trunk /\ score >= 4000 /\ g1.tick % 20 = 0, "anchor hint")
      g3 == IF ~g2.unlocked.leaves /\ Len(g2.plant.nodes) > 0
            THEN addLog([g2 EXCEPT !.unlocked.leaves = TRUE], "leaves unlocked") ELSE g2
  IN IF ~g3.unlocked.branches /\ g3.plant.trunkHeight >= 16000
     THEN addLog([g3 EXCEPT !.unlocked.branches = TRUE], "branches unlocked") ELSE g3

updateHealth(g) ==
  LET temp    == g.env.temperature
      tempOpt == SEEDS[g.seed].tempOptimum
      tFactor == _tempFactor(temp, tempOpt, 10)
      coldHardening    == IF g.dormant THEN g.dormancyDepth ELSE 0
      effectiveTFactor == tFactor + Mul(coldHardening, 400)
      stress == (IF g.energy < 10000 THEN 2 ELSE 0)
              + (IF g.water < 10000 THEN 3 ELSE 0)
              + (IF g.nitrogen < 8000 \/ g.phosphorus < 8000 THEN 1 ELSE 0)
              + (IF g.potassium < 8000 THEN 1 ELSE 0)
              + (IF g.o2 < 15000 THEN 1 ELSE 0)
              + (IF g.settings.tempOptima
                 THEN (IF effectiveTFactor < 300 THEN 2 ELSE IF effectiveTFactor < 600 THEN 1 ELSE 0)
                 ELSE 0)
      g1 == logIf(g, tFactor < 200 /\ g.tick % 40 = 0, "extreme temperature")
      g2 == [g1 EXCEPT !.health = IF stress = 0 THEN clamp(@ + 300, 0, 100000)
                                  ELSE clamp(@ - stress * 500, 0, 100000)]
  IN logIf(g2, g2.health < 30000 /\ g2.tick % 50 = 0, "struggling")

\* ------------------------------------------------------------------------
\* Life-event subsystems
\* ------------------------------------------------------------------------
\* poll: the Math.random() draw of the pollination trial, milli in 0..999
updateFlowering(g, poll) ==
  LET plant == g.plant
      seed  == SEEDS[g.seed]
      canFlower == plant.leafMass >= 25000 /\ plant.ageInDays >= 30
      seasonOk  == seed.floweringSeason = -1 \/ seed.floweringSeason = g.season
      flowerRate == Mul(Mul(seed.growthRate, 400), IF g.energy > 20000 THEN M ELSE 300)
      g1 == IF plant.flowerProgress < 100000
            THEN LET fp == clamp(plant.flowerProgress + flowerRate, 0, 100000)
                     h  == [g EXCEPT !.plant.flowerProgress = fp,
                                     !.energy = clamp(@ - 300, 0, 100000)]
                 IN IF fp >= 100000 /\ ~g.flowering
                    THEN addLog([h EXCEPT !.flowering = TRUE], "flowered") ELSE h
            ELSE g
      attr == seed.pollinatorAttraction
      pollinatorPresence == <<800, 1000, 500, 0>>[g.season + 1]
      pollChance == IF attr = 0 THEN 20 ELSE Mul(Mul(attr, pollinatorPresence), 15)
      yield_ == Round(3000 + (g1.health \div 20) + (g1.plant.leafMass \div 15)
                      + (IF attr > 0 THEN pollinatorPresence * 4 ELSE 0))
  IN IF ~canFlower THEN g
     ELSE IF ~seasonOk
     THEN IF plant.flowerProgress > 0 /\ g.tick % 5 = 0
          THEN [g EXCEPT !.plant.flowerProgress = clamp(@ - 500, 0, 100000)] ELSE g
     ELSE IF g1.flowering /\ ~g1.plant.pollinated /\ poll < pollChance
     THEN addLog([g1 EXCEPT !.plant.seedsProduced = @ + yield_,
                            !.flowering = FALSE,
                            !.plant.flowerProgress = 0,
                            !.plant.pollinated = FALSE], "pollinated")
     ELSE g1

updateLifeCycleSeededOnly(g) ==
  LET seed  == SEEDS[g.seed]
      isWinter == g.season = 3
      isSpring == g.season = 0
      hasSeeded == g.plant.seedsProduced > 0
      g1 == IF seed.lifespan = "annual" /\ ~g.lifeComplete /\ (hasSeeded /\ g.season >= 2)
            THEN addLog(addLog([g EXCEPT !.lifeComplete = TRUE, !.paused = TRUE], "life cycle complete"),
                        "annual finished")
            ELSE g
  IN IF seed.lifespan # "perennial" THEN g1
     ELSE IF isWinter
     THEN LET d  == clamp(g1.dormancyDepth + 20, 0, 900)
              g2 == [g1 EXCEPT !.dormancyDepth = d]
          IN IF ~g2.dormant /\ d > 500
             THEN LET g3 == addLog([g2 EXCEPT !.dormant = TRUE], "enters dormancy")
                  IN IF seed.deciduous
                     THEN addLog([g3 EXCEPT !.plant.leafMass = clamp(Mul(@, 150), 0, 100000)], "leaves shed")
                     ELSE [g3 EXCEPT !.plant.leafMass = clamp(Mul(@, 750), 0, 100000)]
             ELSE g2
     ELSE IF isSpring /\ g1.dormant
     THEN LET d  == clamp(g1.dormancyDepth - 40, 0, M)
              g2 == [g1 EXCEPT !.dormancyDepth = d]
          IN IF d <= 0 THEN addLog([g2 EXCEPT !.dormant = FALSE], "wakes") ELSE g2
     ELSE LET d == clamp(g1.dormancyDepth - 50, 0, M)
          IN [g1 EXCEPT !.dormancyDepth = d, !.dormant = IF d <= 0 THEN FALSE ELSE @]

updateLifeCycleUncapped(g) ==
  LET seed  == SEEDS[g.seed]
      isWinter == g.season = 3
      isSpring == g.season = 0
      hasSeeded == g.plant.seedsProduced > 0
      autumnEnd == g.day > 270
      g1 == IF seed.lifespan = "annual" /\ ~g.lifeComplete /\ ((hasSeeded /\ g.season >= 2) \/ autumnEnd)
            THEN addLog(addLog([g EXCEPT !.lifeComplete = TRUE, !.paused = TRUE], "life cycle complete"),
                        "annual finished")
            ELSE g
  IN IF seed.lifespan # "perennial" THEN g1
     ELSE IF isWinter
     THEN LET d  == g1.dormancyDepth + 20
              g2 == [g1 EXCEPT !.dormancyDepth = d]
          IN IF ~g2.dormant /\ d > 500
             THEN LET g3 == addLog([g2 EXCEPT !.dormant = TRUE], "enters dormancy")
                  IN IF seed.deciduous
                     THEN addLog([g3 EXCEPT !.plant.leafMass = clamp(Mul(@, 150), 0, 100000)], "leaves shed")
                     ELSE [g3 EXCEPT !.plant.leafMass = clamp(Mul(@, 750), 0, 100000)]
             ELSE g2
     ELSE IF isSpring /\ g1.dormant
     THEN LET d  == clamp(g1.dormancyDepth - 40, 0, M)
              g2 == [g1 EXCEPT !.dormancyDepth = d]
          IN IF d <= 0 THEN addLog([g2 EXCEPT !.dormant = FALSE], "wakes") ELSE g2
     ELSE LET d == clamp(g1.dormancyDepth - 50, 0, M)
          IN [g1 EXCEPT !.dormancyDepth = d, !.dormant = IF d <= 0 THEN FALSE ELSE @]

\* updateLifeCycle with a deciduous plant that keeps its leaves when it goes dormant
updateLifeCycleNoShed(g) ==
  LET seed  == SEEDS[g.seed]
      isWinter == g.season = 3
      isSpring == g.season = 0
      hasSeeded == g.plant.seedsProduced > 0
      autumnEnd == g.day > 270
      g1 == IF seed.lifespan = "annual" /\ ~g.lifeComplete /\ ((hasSeeded /\ g.season >= 2) \/ autumnEnd)
            THEN addLog(addLog([g EXCEPT !.lifeComplete = TRUE, !.paused = TRUE], "life cycle complete"),
                        "annual finished")
            ELSE g
  IN IF seed.lifespan # "perennial" THEN g1
     ELSE IF isWinter
     THEN LET d  == clamp(g1.dormancyDepth + 20, 0, 900)
              g2 == [g1 EXCEPT !.dormancyDepth = d]
          IN IF ~g2.dormant /\ d > 500
             THEN LET g3 == addLog([g2 EXCEPT !.dormant = TRUE], "enters dormancy")
                  IN IF seed.deciduous
                     THEN addLog(g3, "leaves shed")
                     ELSE [g3 EXCEPT !.plant.leafMass = clamp(Mul(@, 750), 0, 100000)]
             ELSE g2
     ELSE IF isSpring /\ g1.dormant
     THEN LET d  == clamp(g1.dormancyDepth - 40, 0, M)
              g2 == [g1 EXCEPT !.dormancyDepth = d]
          IN IF d <= 0 THEN addLog([g2 EXCEPT !.dormant = FALSE], "wakes") ELSE g2
     ELSE LET d == clamp(g1.dormancyDepth - 50, 0, M)
          IN [g1 EXCEPT !.dormancyDepth = d, !.dormant = IF d <= 0 THEN FALSE ELSE @]

\* updateLifeCycle with a spring decay of 0.02 per tick
updateLifeCycleSlowWake(g) ==
  LET seed  == SEEDS[g.seed]
      isWinter == g.season = 3
      isSpring == g.season = 0
      hasSeeded == g.plant.seedsProduced > 0
      autumnEnd == g.day > 270
      g1 == IF seed.lifespan = "annual" /\ ~g.lifeComplete /\ ((hasSeeded /\ g.season >= 2) \/ autumnEnd)
            THEN addLog(addLog([g EXCEPT !.lifeComplete = TRUE, !.paused = TRUE], "life cycle complete"),
                        "annual finished")
            ELSE g
  IN IF seed.lifespan # "perennial" THEN g1
     ELSE IF isWinter
     THEN LET d  == clamp(g1.dormancyDepth + 20, 0, 900)
              g2 == [g1 EXCEPT !.dormancyDepth = d]
          IN IF ~g2.dormant /\ d > 500
             THEN LET g3 == addLog([g2 EXCEPT !.dormant = TRUE], "enters dormancy")
                  IN IF seed.deciduous
                     THEN addLog([g3 EXCEPT !.plant.leafMass = clamp(Mul(@, 150), 0, 100000)], "leaves shed")
                     ELSE [g3 EXCEPT !.plant.leafMass = clamp(Mul(@, 750), 0, 100000)]
             ELSE g2
     ELSE IF isSpring /\ g1.dormant
     THEN LET d  == clamp(g1.dormancyDepth - 20, 0, M)
              g2 == [g1 EXCEPT !.dormancyDepth = d]
          IN IF d <= 0 THEN addLog([g2 EXCEPT !.dormant = FALSE], "wakes") ELSE g2
     ELSE LET d == clamp(g1.dormancyDepth - 50, 0, M)
          IN [g1 EXCEPT !.dormancyDepth = d, !.dormant = IF d <= 0 THEN FALSE ELSE @]

updateLifeCycle(g) ==
  LET seed  == SEEDS[g.seed]
      isWinter == g.season = 3
      isSpring == g.season = 0
      hasSeeded == g.plant.seedsProduced > 0
      autumnEnd == g.day > 270
      g1 == IF seed.lifespan = "annual" /\ ~g.lifeComplete /\ ((hasSeeded /\ g.season >= 2) \/ autumnEnd)
            THEN addLog(addLog([g EXCEPT !.lifeComplete = TRUE, !.paused = TRUE], "life cycle complete"),
                        "annual finished")
            ELSE g
  IN IF seed.lifespan # "perennial" THEN g1
     ELSE IF isWinter
     THEN LET d  == clamp(g1.dormancyDepth + 20, 0, 900)
              g2 == [g1 EXCEPT !.dormancyDepth = d]
          IN IF ~g2.dormant /\ d > 500
             THEN LET g3 == addLog([g2 EXCEPT !.dormant = TRUE], "enters dormancy")
                  IN IF seed.deciduous
                     THEN addLog([g3 EXCEPT !.plant.leafMass = clamp(Mul(@, 150), 0, 100000)], "leaves shed")
                     ELSE [g3 EXCEPT !.plant.leafMass = clamp(Mul(@, 750), 0, 100000)]
             ELSE g2
     ELSE IF isSpring /\ g1.dormant
     THEN LET d  == clamp(g1.dormancyDepth - 40, 0, M)
              g2 == [g1 EXCEPT !.dormancyDepth = d]
          IN IF d <= 0 THEN addLog([g2 EXCEPT !.dormant = FALSE], "wakes") ELSE g2
     ELSE LET d == clamp(g1.dormancyDepth - 50, 0, M)
          IN [g1 EXCEPT !.dormancyDepth = d, !.dormant = IF d <= 0 THEN FALSE ELSE @]

updateCambium(g) ==
  LET plant == g.plant
      rate  == SEEDS[g.seed].cambiumRate
      energySurplus == Max(0, g.energy - 40000) \div 60
      phloemFlow    == Min(M, plant.leafMass \div 40)
      xylemFlow     == g.xylemIntegrity \div M
      girthGain     == (Mul(Mul(Mul(rate, energySurplus), phloemFlow), xylemFlow) * 4) \div M
      g1 == [g EXCEPT !.plant.trunkGirth = clamp(@ + girthGain, 0, 100000)]
      starving == phloemFlow < 200 /\ plant.trunkHeight > 10000 /\ g.tick % 20 = 0
      g2 == IF starving
            THEN logIf([g1 EXCEPT !.plant.rootSpread     = clamp(@ - 300, 0, 100000),
                                  !.plant.rootStructural = clamp(@ - 200, 0, 100000)],
                       phloemFlow < 100 /\ g.tick % 60 = 0, "phloem starvation")
            ELSE g1
  IN IF rate = 0 THEN g
     ELSE IF g.dormant THEN g
     ELSE [g2 EXCEPT !.plant.growthRings = plant.ageInDays \div 360]

updateMycorrhizae(g) ==
  LET affinity == SEEDS[g.seed].mycorrhizalAffinity
      network  == BIOMES[g.biome].fungalNetwork
      rootMass == (g.plant.rootSpread + g.plant.rootDepth + g.plant.rootStructural) \div 3
      colonRate == Mul(Mul(affinity, network), rootMass \div 50) \div 2      \* micro
      col1 == IF g.mycorrhizalColonisation < M * M
              THEN clamp(g.mycorrhizalColonisation + colonRate, 0, M * M)
              ELSE g.mycorrhizalColonisation
      grew == g.mycorrhizalColonisation < M * M
      g1 == [g EXCEPT !.mycorrhizalColonisation = col1]
      g2 == logIf(g1, grew /\ col1 > 300000 /\ col1 - colonRate <= 300000, "fungi colonising")
      g3 == logIf(g2, grew /\ col1 > 800000 /\ col1 - colonRate <= 800000, "fungi established")
      sugarCost == Mul(Mul(col1 \div M, affinity), 50)
      g4 == [g3 EXCEPT !.energy = clamp(@ - sugarCost, 0, 100000),
                       !.mycorrhizalBonus = Mul(Mul(col1 \div M, affinity), network)]
  IN IF rootMass < 10000 THEN g
     ELSE IF g4.health < 20000 /\ g4.tick % 30 = 0
     THEN [g4 EXCEPT !.mycorrhizalColonisation = clamp(@ - 20000, 0, M * M)]
     ELSE g4

\* updateHerbivory with a pressure that wanes by 0.010 per tick
updateHerbivorySlow(g, rnd) ==
  LET seed == SEEDS[g.seed]
      susceptibility == seed.herbivorySusceptibility
      defense        == seed.defenseStrength
      leafTarget == g.plant.leafMass > 10000
      seasonMod  == <<800, 1200, 1000, 100>>[g.season + 1]
      chance     == Mul(Mul(Mul(40, susceptibility), seasonMod), M - Mul(defense, 600))
      starts     == ~g.herbivoreEvent /\ leafTarget /\ g.tick % 20 = 0 /\ rnd.herb < chance
      isGrazer   == g.plant.trunkHeight > 15000 /\ rnd.graze < 300
      g1 == IF starts
            THEN addLog([g EXCEPT !.herbivoreEvent = TRUE,
                                  !.herbivorePressure = IF isGrazer THEN 800 ELSE 300 + Mul(rnd.press, 500)],
                        IF isGrazer THEN "grazer" ELSE "insects")
            ELSE g
      damage == Mul(Mul(Mul(g1.herbivorePressure, susceptibility), M - Mul(defense, 700)), 300)
      trunkHit == g1.herbivorePressure > 700 /\ g1.plant.trunkHeight > 5000
      scars    == trunkHit /\ g1.herbivorePressure > 850 /\ ~g1.plant.scarredTrunk
      g2 == [g1 EXCEPT !.plant.leafMass      = clamp(@ - damage, 0, 100000),
                       !.plant.damagedLeaves = clamp(@ + Mul(damage, 500), 0, 100000),
                       !.plant.trunkGirth    = IF trunkHit THEN clamp(@ - Mul(damage, 100), 0, 100000) ELSE @,
                       !.plant.scarredTrunk  = IF scars THEN TRUE ELSE @]
      g3 == logIf(g2, scars, "trunk scarring")
      g4 == [g3 EXCEPT !.energy = clamp(@ - Mul(defense, 150), 0, 100000),
                       !.health = clamp(@ - Mul(damage, 300), 0, 100000),
                       !.herbivorePressure = clamp(@ - 10, 0, M)]
  IN IF ~g1.herbivoreEvent THEN g1
     ELSE IF g4.herbivorePressure < 50
     THEN addLog([g4 EXCEPT !.herbivoreEvent = FALSE, !.herbivorePressure = 0], "herbivores gone")
     ELSE g4

\* updateHerbivory with a grazer whose pressure is 0.9
updateHerbivoryFierce(g, rnd) ==
  LET seed == SEEDS[g.seed]
      susceptibility == seed.herbivorySusceptibility
      defense        == seed.defenseStrength
      leafTarget == g.plant.leafMass > 10000
      seasonMod  == <<800, 1200, 1000, 100>>[g.season + 1]
      chance     == Mul(Mul(Mul(40, susceptibility), seasonMod), M - Mul(defense, 600))
      starts     == ~g.herbivoreEvent /\ leafTarget /\ g.tick % 20 = 0 /\ rnd.herb < chance
      isGrazer   == g.plant.trunkHeight > 15000 /\ rnd.graze < 300
      g1 == IF starts
            THEN addLog([g EXCEPT !.herbivoreEvent = TRUE,
                                  !.herbivorePressure = IF isGrazer THEN 900 ELSE 300 + Mul(rnd.press, 500)],
                        IF isGrazer THEN "grazer" ELSE "insects")
            ELSE g
      damage == Mul(Mul(Mul(g1.herbivorePressure, susceptibility), M - Mul(defense, 700)), 300)
      trunkHit == g1.herbivorePressure > 700 /\ g1.plant.trunkHeight > 5000
      scars    == trunkHit /\ g1.herbivorePressure > 850 /\ ~g1.plant.scarredTrunk
      g2 == [g1 EXCEPT !.plant.leafMass      = clamp(@ - damage, 0, 100000),
                       !.plant.damagedLeaves = clamp(@ + Mul(damage, 500), 0, 100000),
                       !.plant.trunkGirth    = IF trunkHit THEN clamp(@ - Mul(damage, 100), 0, 100000) ELSE @,
                       !.plant.scarredTrunk  = IF scars THEN TRUE ELSE @]
      g3 == logIf(g2, scars, "trunk scarring")
      g4 == [g3 EXCEPT !.energy = clamp(@ - Mul(defense, 150), 0, 100000),
                       !.health = clamp(@ - Mul(damage, 300), 0, 100000),
                       !.herbivorePressure = clamp(@ - 15, 0, M)]
  IN IF ~g1.herbivoreEvent THEN g1
     ELSE IF g4.herbivorePressure < 50
     THEN addLog([g4 EXCEPT !.herbivoreEvent = FALSE, !.herbivorePressure = 0], "herbivores gone")
     ELSE g4

\* rnd.herb, rnd.press, rnd.graze: the Math.random() draws, milli in 0..999
updateHerbivory(g, rnd) ==
  LET seed == SEEDS[g.seed]
      susceptibility == seed.herbivorySusceptibility
      defense        == seed.defenseStrength
      leafTarget == g.plant.leafMass > 10000
      seasonMod  == <<800, 1200, 1000, 100>>[g.season + 1]
      chance     == Mul(Mul(Mul(40, susceptibility), seasonMod), M - Mul(defense, 600))
      starts     == ~g.herbivoreEvent /\ leafTarget /\ g.tick % 20 = 0 /\ rnd.herb < chance
      isGrazer   == g.plant.trunkHeight > 15000 /\ rnd.graze < 300
      g1 == IF starts
            THEN addLog([g EXCEPT !.herbivoreEvent = TRUE,
                                  !.herbivorePressure = IF isGrazer THEN 800 ELSE 300 + Mul(rnd.press, 500)],
                        IF isGrazer THEN "grazer" ELSE "insects")
            ELSE g
      damage == Mul(Mul(Mul(g1.herbivorePressure, susceptibility), M - Mul(defense, 700)), 300)
      trunkHit == g1.herbivorePressure > 700 /\ g1.plant.trunkHeight > 5000
      scars    == trunkHit /\ g1.herbivorePressure > 850 /\ ~g1.plant.scarredTrunk
      g2 == [g1 EXCEPT !.plant.leafMass      = clamp(@ - damage, 0, 100000),
                       !.plant.damagedLeaves = clamp(@ + Mul(damage, 500), 0, 100000),
                       !.plant.trunkGirth    = IF trunkHit THEN clamp(@ - Mul(damage, 100), 0, 100000) ELSE @,
                       !.plant.scarredTrunk  = IF scars THEN TRUE ELSE @]
      g3 == logIf(g2, scars, "trunk scarring")
      g4 == [g3 EXCEPT !.energy = clamp(@ - Mul(defense, 150), 0, 100000),
                       !.health = clamp(@ - Mul(damage, 300), 0, 100000),
                       !.herbivorePressure = clamp(@ - 15, 0, M)]
  IN IF ~g1.herbivoreEvent THEN g1
     ELSE IF g4.herbivorePressure < 50
     THEN addLog([g4 EXCEPT !.herbivoreEvent = FALSE, !.herbivorePressure = 0], "herbivores gone")
     ELSE g4

\* the weighted choice among drought / flood / storm, r: Math.random() draw, milli
chooseWeather(biome, r) ==
  LET b == BIOMES[biome]
      wDrought == IF b.rainfall < 400 THEN 500 ELSE IF b.rainfall < 700 THEN 250 ELSE 100
      wFlood   == IF b.groundwaterDepth <= 2 THEN 350 ELSE 150
      wStorm   == IF Abs(b.wind) > 300 THEN 400 ELSE 200
      total    == wDrought + wFlood + wStorm
      r0       == Mul(r, total)
  IN IF r0 - wDrought <= 0 THEN "drought"
     ELSE IF r0 - wDrought - wFlood <= 0 THEN "flood"
     ELSE "storm"

\* updateWeatherEvents without the cooldown test
updateWeatherEventsNoCooldown(g, rnd) ==
  IF g.activeWeatherEvent # Null
  THEN LET timer == g.weatherEventTimer - 1
           g1 == [g EXCEPT !.weatherEventTimer = timer]
           windStress == M - clamp(g.plant.rootStructural \div 40, 0, M)
           g2 == CASE g.activeWeatherEvent = "drought" ->
                        logIf([g1 EXCEPT !.env.rainfall = clamp(Mul(@, 300), 0, 50)],
                              timer % 30 = 0, "drought continues")
                   [] g.activeWeatherEvent = "flood" ->
                        LET h == [g1 EXCEPT !.env.rainfall = Min(M, Mul(@, 1500) + 400),
                                            !.water = Min(100000, @ + 2000)]
                            k == IF g.tick % 10 = 0
                                 THEN [h EXCEPT !.plant.rootSpread     = clamp(@ - 400, 0, 100000),
                                                !.plant.rootStructural = clamp(@ - 200, 0, 100000)]
                                 ELSE h
                        IN logIf(k, timer % 30 = 0, "flooding")
                   [] g.activeWeatherEvent = "storm" ->
                        LET h == IF g.tick % 5 = 0 /\ windStress > 300
                                 THEN [g1 EXCEPT !.plant.branchLength = clamp(@ - Mul(windStress, 800), 0, 100000),
                                                 !.plant.leafMass     = clamp(@ - Mul(windStress, 1200), 0, 100000)]
                                 ELSE g1
                        IN logIf(h, timer % 20 = 0, "storm battering")
                   [] OTHER -> g1
       IN IF timer <= 0
          THEN addLog([g2 EXCEPT !.activeWeatherEvent = Null, !.weatherEventTimer = 0], "weather ended")
          ELSE g2
  ELSE IF g.tick % 50 # 0 THEN g
  ELSE IF rnd.wx > 150 THEN g
  ELSE addLog([g EXCEPT !.activeWeatherEvent = chooseWeather(g.biome, rnd.wxType),
                        !.weatherEventTimer  = (20 + rnd.wxDur) * 10,
                        !.weatherEventLog    = g.day],
              "weather started")

\* updateWeatherEvents with an event that ends one tick late
updateWeatherEventsLate(g, rnd) ==
  IF g.activeWeatherEvent # Null
  THEN LET timer == g.weatherEventTimer - 1
           g1 == [g EXCEPT !.weatherEventTimer = timer]
           windStress == M - clamp(g.plant.rootStructural \div 40, 0, M)
           g2 == CASE g.activeWeatherEvent = "drought" ->
                        logIf([g1 EXCEPT !.env.rainfall = clamp(Mul(@, 300), 0, 50)],
                              timer % 30 = 0, "drought continues")
                   [] g.activeWeatherEvent = "flood" ->
                        LET h == [g1 EXCEPT !.env.rainfall = Min(M, Mul(@, 1500) + 400),
                                            !.water = Min(100000, @ + 2000)]
                            k == IF g.tick % 10 = 0
                                 THEN [h EXCEPT !.plant.rootSpread     = clamp(@ - 400, 0, 100000),
                                                !.plant.rootStructural = clamp(@ - 200, 0, 100000)]
                                 ELSE h
                        IN logIf(k, timer % 30 = 0, "flooding")
                   [] g.activeWeatherEvent = "storm" ->
                        LET h == IF g.tick % 5 = 0 /\ windStress > 300
                                 THEN [g1 EXCEPT !.plant.branchLength = clamp(@ - Mul(windStress, 800), 0, 100000),
                                                 !.plant.leafMass     = clamp(@ - Mul(windStress, 1200), 0, 100000)]
                                 ELSE g1
                        IN logIf(h, timer % 20 = 0, "storm battering")
                   [] OTHER -> g1
       IN IF timer < 0
          THEN addLog([g2 EXCEPT !.activeWeatherEvent = Null, !.weatherEventTimer = 0], "weather ended")
          ELSE g2
  ELSE IF g.tick % 50 # 0 THEN g
  ELSE IF g.day - g.weatherEventLog < 90 THEN g
  ELSE IF rnd.wx > 150 THEN g
  ELSE addLog([g EXCEPT !.activeWeatherEvent = chooseWeather(g.biome, rnd.wxType),
                        !.weatherEventTimer  = (20 + rnd.wxDur) * 10,
                        !.weatherEventLog    = g.day],
              "weather started")

\* rnd.wx, rnd.wxType: Math.random() draws, milli; rnd.wxDur: Math.floor(Math.random() * 40)
updateWeatherEvents(g, rnd) ==
  IF g.activeWeatherEvent # Null
  THEN LET timer == g.weatherEventTimer - 1
           g1 == [g EXCEPT !.weatherEventTimer = timer]
           windStress == M - clamp(g.plant.rootStructural \div 40, 0, M)
           g2 == CASE g.activeWeatherEvent = "drought" ->
                        logIf([g1 EXCEPT !.env.rainfall = clamp(Mul(@, 300), 0, 50)],
                              timer % 30 = 0, "drought continues")
                   [] g.activeWeatherEvent = "flood" ->
                        LET h == [g1 EXCEPT !.env.rainfall = Min(M, Mul(@, 1500) + 400),
                                            !.water = Min(100000, @ + 2000)]
                            k == IF g.tick % 10 = 0
                                 THEN [h EXCEPT !.plant.rootSpread     = clamp(@ - 400, 0, 100000),
                                                !.plant.rootStructural = clamp(@ - 200, 0, 100000)]
                                 ELSE h
                        IN logIf(k, timer % 30 = 0, "flooding")
                   [] g.activeWeatherEvent = "storm" ->
                        LET h == IF g.tick % 5 = 0 /\ windStress > 300
                                 THEN [g1 EXCEPT !.plant.branchLength = clamp(@ - Mul(windStress, 800), 0, 100000),
                                                 !.plant.leafMass     = clamp(@ - Mul(windStress, 1200), 0, 100000)]
                                 ELSE g1
                        IN logIf(h, timer % 20 = 0, "storm battering")
                   [] OTHER -> g1
       IN IF timer <= 0
          THEN addLog([g2 EXCEPT !.activeWeatherEvent = Null, !.weatherEventTimer = 0], "weather ended")
          ELSE g2
  ELSE IF g.tick % 50 # 0 THEN g
  ELSE IF g.day - g.weatherEventLog < 90 THEN g
  ELSE IF rnd.wx > 150 THEN g
  ELSE addLog([g EXCEPT !.activeWeatherEvent = chooseWeather(g.biome, rnd.wxType),
                        !.weatherEventTimer  = (20 + rnd.wxDur) * 10,
                        !.weatherEventLog    = g.day],
              "weather started")

\* ------------------------------------------------------------------------
\* Simulation tick
\* ------------------------------------------------------------------------
\* gs.tick++ and the calendar derived from it
advanceClock(g) ==
  LET t == g.tick + 1
      d == (t \div 10) + 1
  IN [g EXCEPT !.tick = t, !.day = d, !.season = (d % 360) \div 90, !.plant.ageInDays = d]

\* the optional subsystems of a tick, each behind its settings flag
stomataStep(g) == IF g.settings.stomatalRegulation THEN updateStomata(g) ELSE [g EXCEPT !.stomata = M]

hydraulicsStep(g) == IF g.settings.hydraulicFailure THEN updateHydraulics(g) ELSE [g EXCEPT !.xylemIntegrity = M * M]

floweringStep(g, rnd) == IF g.settings.flowering THEN updateFlowering(g, rnd.poll) ELSE g

lifeCycleStep(g) == IF g.settings.lifeCycles THEN updateLifeCycle(g) ELSE g

cambiumStep(g) == IF g.settings.cambiumGrowth THEN updateCambium(g) ELSE g

mycorrhizaeStepAlways(g) == updateMycorrhizae(g)

mycorrhizaeStep(g) == IF g.settings.mycorrhizae THEN updateMycorrhizae(g) ELSE g

herbivoryStep(g, rnd) == IF g.settings.herbivory THEN updateHerbivory(g, rnd) ELSE g

weatherStep(g, rnd) == IF g.settings.weatherEvents THEN updateWeatherEvents(g, rnd) ELSE g

\* the unconditional statements of a tick; each runs on the finished state of the
\* statement before it (reading the tick count settles that state)
clockStep(g) == IF g.tick >= 0 THEN advanceClock(g) ELSE g

environmentStep(g, rnd) == IF g.tick >= 0 THEN updateEnvironment(g, rnd) ELSE g

flowsStep(g) == IF g.tick >= 0 THEN computeResourceFlows(g) ELSE g

growthStep(g) == IF g.tick >= 0 THEN applyGrowth(g) ELSE g

rootGraphStep(g) == IF g.tick >= 0 THEN updateRootGraph(g) ELSE g

seedlingStep(g) == IF g.tick >= 0 THEN seedBaseNode(g) ELSE g

unlockStep(g) == IF g.tick >= 0 THEN checkUnlocks(g) ELSE g

healthStep(g) == IF g.tick >= 0 THEN updateHealth(g) ELSE g

\* the physical part of a tick: environment, stomata, hydraulics, flows, growth
physiology(g, rnd) ==
  growthStep(flowsStep(hydraulicsStep(stomataStep(environmentStep(clockStep(g), rnd)))))

\* the structural part of a tick: root graph, seedling node, unlocks, health
structure(g) == healthStep(unlockStep(seedlingStep(rootGraphStep(g))))

simulateTick(g, rnd) ==
  weatherStep(
    herbivoryStep(
      mycorrhizaeStep(cambiumStep(lifeCycleStep(floweringStep(structure(physiology(g, rnd)), rnd)))),
      rnd),
    rnd)

\* ------------------------------------------------------------------------
\* Interactive placement
\* ------------------------------------------------------------------------
\* nodes.find(n => n.id === id): index of the first node with that id, 0 if none
nodeIndex(nodes, id) ==
  IF \E i \in DOMAIN nodes : nodes[i].id = id
  THEN CHOOSE i \in DOMAIN nodes : nodes[i].id = id /\ \A j \in 1..(i - 1) : nodes[j].id # id
  ELSE 0

\* nodes.find(n => n.id === cid)?.type === type
childHasType(nodes, cid, type) ==
  LET i == nodeIndex(nodes, cid) IN i # 0 /\ nodes[i].type = type

\* variant of trunkCandidatesOf: candidates are offered at every trunk node
trunkCandidatesAnywhere(g, node) ==
  LET segLen == Max(16000, 12000 + Mul(g.plant.trunkHeight, 250))
      cand(delta, label) ==
        LET angle == node.angle + delta
        IN [id |-> <<"trunk", node.id, delta>>, parentNodeId |-> node.id,
            x |-> node.x + Mul(Cos(angle), segLen), y |-> node.y + Mul(Sin(angle), segLen),
            angle |-> angle, length |-> segLen, size |-> 0, label |-> label]
  IN <<cand(-450, "Left"), cand(0, "Straight"), cand(450, "Right")>>

\* the three trunk candidates off one trunk node (empty when it has a trunk child)
trunkCandidatesOf(g, node) ==
  LET nodes == g.plant.nodes
      hasTrunkChild == \E k \in DOMAIN node.children : childHasType(nodes, node.children[k], "trunk")
      segLen == Max(16000, 12000 + Mul(g.plant.trunkHeight, 250))
      cand(delta, label) ==
        LET angle == node.angle + delta
        IN [id |-> <<"trunk", node.id, delta>>, parentNodeId |-> node.id,
            x |-> node.x + Mul(Cos(angle), segLen), y |-> node.y + Mul(Sin(angle), segLen),
            angle |-> angle, length |-> segLen, size |-> 0, label |-> label]
  IN IF hasTrunkChild THEN <<>>
     ELSE <<cand(-450, "Left"), cand(0, "Straight"), cand(450, "Right")>>

\* variant of leafCandidatesOf: the leaf size follows the energy pool
leafCandidatesByEnergy(g, node) ==
  LET nodes == g.plant.nodes
      leafCount == Cardinality({k \in DOMAIN node.children : childHasType(nodes, node.children[k], "leaf")})
      leafSize  == Max(10000, 8000 + Mul(g.energy, 350))
      alreadyHasSide(side) ==
        \E k \in DOMAIN node.children :
          LET i == nodeIndex(nodes, node.children[k])
          IN i # 0 /\ nodes[i].type = "leaf"
             /\ (IF side < 0 THEN nodes[i].x < node.x ELSE nodes[i].x >= node.x)
      cand(side, label) ==
        LET leafAngle == node.angle + side * Mul(Pi, 550)
            offset    == Mul(leafSize, 1200)
        IN [id |-> <<"leaf", node.id, side>>, parentNodeId |-> node.id,
            x |-> node.x + Mul(Cos(leafAngle), offset), y |-> node.y + Mul(Sin(leafAngle), offset),
            angle |-> leafAngle, length |-> 0, size |-> leafSize, label |-> label]
  IN IF leafCount >= 2 THEN <<>>
     ELSE (IF alreadyHasSide(-1) THEN <<>> ELSE <<cand(-1, "Left leaf")>>)
          \o (IF alreadyHasSide(1) THEN <<>> ELSE <<cand(1, "Right leaf")>>)

\* the leaf candidates off one trunk node
leafCandidatesOf(g, node) ==
  LET nodes == g.plant.nodes
      leafCount == Cardinality({k \in DOMAIN node.children : childHasType(nodes, node.children[k], "leaf")})
      leafSize  == Max(10000, 8000 + Mul(g.plant.leafMass, 350))
      alreadyHasSide(side) ==
        \E k \in DOMAIN node.children :
          LET i == nodeIndex(nodes, node.children[k])
          IN i # 0 /\ nodes[i].type = "leaf"
             /\ (IF side < 0 THEN nodes[i].x < node.x ELSE nodes[i].x >= node.x)
      cand(side, label) ==
        LET leafAngle == node.angle + side * Mul(Pi, 550)
            offset    == Mul(leafSize, 1200)
        IN [id |-> <<"leaf", node.id, side>>, parentNodeId |-> node.id,
            x |-> node.x + Mul(Cos(leafAngle), offset), y |-> node.y + Mul(Sin(leafAngle), offset),
            angle |-> leafAngle, length |-> 0, size |-> leafSize, label |-> label]
  IN IF leafCount >= 2 THEN <<>>
     ELSE (IF alreadyHasSide(-1) THEN <<>> ELSE <<cand(-1, "Left leaf")>>)
          \o (IF alreadyHasSide(1) THEN <<>> ELSE <<cand(1, "Right leaf")>>)

\* nodes.filter(n => n.type === 'trunk').forEach(...) from node index i on
RECURSIVE candidatesFrom(_, _, _)
candidatesFrom(g, type, i) ==
  IF i > Len(g.plant.nodes) THEN <<>>
  ELSE LET node == g.plant.nodes[i]
           here == IF node.type # "trunk" THEN <<>>
                   ELSE IF type = "trunk" THEN trunkCandidatesOf(g, node)
                   ELSE IF type = "leaf" THEN leafCandidatesOf(g, node)
                   ELSE <<>>
       IN here \o candidatesFrom(g, type, i + 1)

computePlacementCandidates(g, type) == candidatesFrom(g, type, 1)

\* the node pushed by commitPlacement and its id pushed onto the parent's children
commitNode(g, p, candidate, type) ==
  LET nodes   == g.plant.nodes
      newNode == [type |-> type, id |-> g.plant.nextNodeId, parentId |-> nodes[p].id,
                  x |-> candidate.x, y |-> candidate.y, angle |-> candidate.angle,
                  length |-> IF candidate.length = 0 THEN 14000 ELSE candidate.length,
                  thickness |-> IF type = "trunk" THEN Max(2000, 2000 + Mul(g.plant.trunkGirth, 60)) ELSE 0,
                  size |-> IF type = "leaf" THEN (IF candidate.size = 0 THEN 12000 ELSE candidate.size) ELSE 0,
                  children |-> <<>>]
  IN [g EXCEPT !.plant.nodes = Append([@ EXCEPT ![p].children = Append(@, newNode.id)], newNode),
               !.plant.nextNodeId = @ + 1]

\* variant of trunkCost: phosphorus is not charged
trunkCostNoPhosphorus(g) ==
  addLog([g EXCEPT !.plant.trunkHeight = clamp(@ + 8000, 0, 100000),
                   !.plant.trunkGirth  = clamp(@ + 3000, 0, 100000),
                   !.energy     = clamp(@ - 12000, 0, 100000),
                   !.nitrogen   = clamp(@ - 4000, 0, 100000),
                   !.water      = clamp(@ - 6000, 0, 100000)],
         "trunk placed")

\* if (type === 'trunk') { ... }
trunkCost(g) ==
  addLog([g EXCEPT !.plant.trunkHeight = clamp(@ + 8000, 0, 100000),
                   !.plant.trunkGirth  = clamp(@ + 3000, 0, 100000),
                   !.energy     = clamp(@ - 12000, 0, 100000),
                   !.phosphorus = clamp(@ - 6000, 0, 100000),
                   !.nitrogen   = clamp(@ - 4000, 0, 100000),
                   !.water      = clamp(@ - 6000, 0, 100000)],
         "trunk placed")

\* variant of leafCost: leafMass is not clamped
leafCostUnclamped(g) ==
  addLog([g EXCEPT !.plant.leafMass     = @ + 6000,
                   !.plant.branchLength = clamp(@ + 4000, 0, 100000),
                   !.energy    = clamp(@ - 8000, 0, 100000),
                   !.water     = clamp(@ - 5000, 0, 100000),
                   !.nitrogen  = clamp(@ - 3000, 0, 100000),
                   !.potassium = clamp(@ - 1000, 0, 100000)],
         "leaf placed")

\* if (type === 'leaf') { ... }
leafCost(g) ==
  addLog([g EXCEPT !.plant.leafMass     = clamp(@ + 6000, 0, 100000),
                   !.plant.branchLength = clamp(@ + 4000, 0, 100000),
                   !.energy    = clamp(@ - 8000, 0, 100000),
                   !.water     = clamp(@ - 5000, 0, 100000),
                   !.nitrogen  = clamp(@ - 3000, 0, 100000),
                   !.potassium = clamp(@ - 1000, 0, 100000)],
         "leaf placed")

\* variant of exitPlacement: placement mode is kept
exitPlacementKept(g) == g

\* exit placement mode
exitPlacement(g) == [g EXCEPT !.placement = [mode |-> Null, candidates |-> <<>>, hoveredId |-> Null]]

\* variant of commitPlacement: the cost is charged also when the parent is missing
commitPlacementCharging(g, candidate, type) ==
  LET p  == nodeIndex(g.plant.nodes, candidate.parentNodeId)
      g1 == IF p = 0 THEN g ELSE commitNode(g, p, candidate, type)
      g2 == IF type = "trunk" THEN trunkCost(g1) ELSE g1
      g3 == IF type = "leaf" THEN leafCost(g2) ELSE g2
  IN IF p = 0 THEN g3 ELSE exitPlacement(g3)

commitPlacement(g, candidate, type) ==
  LET p  == nodeIndex(g.plant.nodes, candidate.parentNodeId)
      g1 == commitNode(g, p, candidate, type)
      g2 == IF type = "trunk" THEN trunkCost(g1) ELSE g1
      g3 == IF type = "leaf" THEN leafCost(g2) ELSE g2
  IN IF p = 0 THEN g ELSE exitPlacement(g3)

\* ------------------------------------------------------------------------
\* State, inputs and start states
\* ------------------------------------------------------------------------
\* gs: the game state object; fuel: operations left to explore in this behaviour;
\* last: the operation performed last and its arguments;
\* committed: ids of the candidates committed so far (history)
VARIABLES gs, fuel, last, committed, game

vars == <<gs, fuel, last, committed, game>>

\* Math.random() draws of one tick (milli, 0 = lowest draw, 999 = highest draw);
\* wxDur is Math.floor(Math.random() * 40)
Rnd(e, p, q, w) ==
  [sun |-> e, rain |-> e, temp |-> e, poll |-> p, herb |-> p, wx |-> p,
   graze |-> q, press |-> q, wxType |-> w, wxDur |-> IF q = 0 THEN 0 ELSE 39]

\* the draws explored per tick: lowest and highest environment noise, with no event
\* starting (the event draws at their highest) or with every due event starting
RndSet ==
  {Rnd(e, 999, 999, 999) : e \in {0, 999}}
  \cup {Rnd(e, 0, q, w) : e \in {0, 999}, q \in {0, 999}, w \in {0, 500, 999}}

\* draws under which no herbivore, weather or pollination event starts
Quiet == Rnd(500, 999, 999, 999)

\* draws under which every event that can start does start
Eventful(w) == Rnd(500, 0, 0, w)

MidDraw == [sun |-> 500, rain |-> 500, soil |-> 500]

\* n ticks in a row with the same draws
RECURSIVE Run(_)
Run(j) ==
  IF j.n <= 0 THEN j.g
  ELSE IF j.n = 1 THEN simulateTick(j.g, j.rnd)
  ELSE Run([g |-> Run([j EXCEPT !.n = j.n \div 2]), n |-> j.n - (j.n \div 2), rnd |-> j.rnd])

ActionIds == {"roots", "trunk", "branches", "leaves"}

RootTypeIds == {"taproot", "structural", "surface"}

PlacementTypes == {"trunk", "leaf"}

\* ui.js _toggleAction
toggleAction(g, actionId) ==
  IF actionId \in {"trunk", "branches", "leaves"} /\ ~g.unlocked[actionId] THEN g
  ELSE [g EXCEPT !.activeAction = IF @ = actionId THEN Null ELSE actionId]

\* ui.js _selectRootType
selectRootType(g, id) == [g EXCEPT !.rootType = id]

\* main.js setSpeed: -1 pauses the game, any other speed lets the loop tick
setSpeed(g, speed) ==
  IF speed = -1 THEN [g EXCEPT !.paused = TRUE, !.speed = 0]
  ELSE [g EXCEPT !.paused = FALSE, !.speed = speed]

\* main.js enterPlacementMode
enterPlacementMode(g, type) ==
  LET candidates == computePlacementCandidates(g, type)
  IN IF Len(candidates) = 0 THEN addLog(g, "no valid spots")
     ELSE addLog([g EXCEPT !.placement = [mode |-> type, candidates |-> candidates, hoveredId |-> Null],
                           !.activeAction = Null],
                 "click a glowing spot")

\* a candidate whose parent is not in plant.nodes
DanglingCandidate(g) ==
  [id |-> <<"trunk", g.plant.nextNodeId + 7, 0>>, parentNodeId |-> g.plant.nextNodeId + 7,
   x |-> 0, y |-> -22000, angle |-> -(Pi \div 2), length |-> 16000, size |-> 0, label |-> "Straight"]

Range(s) == {s[i] : i \in DOMAIN s}

\* createGameState as called by main.js _startGame
Fresh(biome, seed, settings) == createGameState(biome, seed, settings, MidDraw)

\* a state built the way section 8 of the specification builds its scenarios:
\* a fresh state whose leafMass is set directly to a value in range
withLeafMass(g, v) == [g EXCEPT !.plant.leafMass = v]

Budget(t, i, c) == [ticks |-> t, inputs |-> i, commits |-> c, queries |-> 0]

Op(op, candidate, type) == [op |-> op, candidate |-> candidate, type |-> type]

\* fresh games
FreshStarts ==
  {<<Fresh(c[1], c[2], c[3]), Budget(MaxTicks, MaxInputs, 0), {}>> :
     c \in {<<"plains", "grass", DEFAULT_SETTINGS>>, <<"desert", "cactus", NO_SETTINGS>>}}

\* the first candidate of the given type, committed
commitFirst(g, type) == commitPlacement(g, computePlacementCandidates(g, type)[1], type)

\* the steps by which a scenario is grown from a fresh game
DoRun(n, rnd)  == [op |-> "run", arg |-> Null, n |-> n, rnd |-> rnd]
DoLeafMass(v)  == [op |-> "leafMass", arg |-> Null, n |-> v, rnd |-> Quiet]
DoToggle(a)    == [op |-> "toggle", arg |-> a, n |-> 0, rnd |-> Quiet]
DoRootType(id) == [op |-> "rootType", arg |-> id, n |-> 0, rnd |-> Quiet]
DoSpeed(speed) == [op |-> "speed", arg |-> Null, n |-> speed, rnd |-> Quiet]
DoEnter(type)  == [op |-> "enter", arg |-> type, n |-> 0, rnd |-> Quiet]
DoCommit(type) == [op |-> "commit", arg |-> type, n |-> 0, rnd |-> Quiet]

Step(g, st) ==
  CASE st.op = "run"      -> Run([g |-> g, n |-> st.n, rnd |-> st.rnd])
    [] st.op = "leafMass" -> withLeafMass(g, st.n)
    [] st.op = "toggle"   -> toggleAction(g, st.arg)
    [] st.op = "rootType" -> selectRootType(g, st.arg)
    [] st.op = "speed"    -> setSpeed(g, st.n)
    [] st.op = "enter"    -> enterPlacementMode(g, st.arg)
    [] st.op = "commit"   -> commitFirst(g, st.arg)
    [] OTHER              -> g

\* the steps of a script played in order, each on the state its predecessor has produced
RECURSIVE Play(_, _)
Play(g, script) ==
  IF g.tick >= 0 /\ script # <<>> THEN Play(Step(g, Head(script)), Tail(script)) ELSE g

\* a scenario: the game that is started, the steps played on it, the budget of
\* further operations and the candidate ids committed on the way
Scenario(biome, seed, settings, script, budget, ids) ==
  [biome |-> biome, seed |-> seed, settings |-> settings, script |-> script,
   budget |-> budget, committed |-> ids]

\* a grass plant that has grown its tap root for 19 ticks, just below the second depth level
TaprootStart ==
  Scenario("plains", "grass", DEFAULT_SETTINGS,
           <<DoRootType("taproot"), DoToggle("roots"), DoRun(19, Quiet)>>, Budget(MaxTicks, 0, 0), {})

\* a grass plant that has grown surface roots for 28 ticks, just below the second arm
SurfaceStart ==
  Scenario("plains", "grass", DEFAULT_SETTINGS,
           <<DoToggle("roots"), DoRun(28, Quiet)>>, Budget(MaxTicks, 0, 0), {})

\* the same plant after 35 ticks: the thinnest segments are about to reach their maximum width
ThickStart ==
  Scenario("plains", "grass", DEFAULT_SETTINGS,
           <<DoToggle("roots"), DoRun(35, Quiet)>>, Budget(MaxTicks, 0, 0), {})

\* an oak that has grown structural roots for 16 ticks, just below the first arm
StructuralStart ==
  Scenario("plains", "oak", DEFAULT_SETTINGS,
           <<DoRootType("structural"), DoToggle("roots"), DoRun(16, Quiet)>>, Budget(MaxTicks, 0, 0), {})

\* a game left idle for 899 ticks: the first weather check is due at tick 900
IdleStart ==
  Scenario("wetlands", "willow", DEFAULT_SETTINGS, <<DoRun(899, Quiet)>>, Budget(MaxTicks, 0, 0), {})

\* a willow that grew surface roots for 15 ticks (anchor score just above the trunk
\* threshold), was then left alone, and has stood in a flood since tick 900:
\* the flood's next root die-back is due at tick 940, the unlock check after it at tick 941
FloodStart ==
  Scenario("wetlands", "willow", DEFAULT_SETTINGS,
           <<DoToggle("roots"), DoRun(15, Quiet), DoToggle("roots"), DoRun(884, Quiet),
             DoRun(1, Rnd(500, 0, 999, 500)), DoRun(39, Quiet)>>,
           Budget(2, 0, 0), {})

\* a running game with an annual grass left alone for 2699 ticks: day 270, no seeds;
\* the next tick starts day 271
AnnualStart ==
  Scenario("plains", "grass", DEFAULT_SETTINGS, <<DoSpeed(1), DoRun(2699, Quiet)>>, Budget(2, 0, 0), {})


\* a willow left alone until the 51st tick of its first winter: dormant, with
\* dormancyDepth at the target depth since tick 2735
DormantStart ==
  [IdleStart EXCEPT !.script = @ \o <<DoRun(1841, Quiet)>>, !.budget = Budget(2, 0, 0)]

\* a seed about to sprout (leafMass at the sprouting threshold)
SeedlingStart ==
  Scenario("plains", "oak", DEFAULT_SETTINGS, <<DoLeafMass(500)>>, Budget(1, 1, MaxCommits - 1), {})

\* the sprouted seedling after three trunk segments placed to the left
BentStart ==
  Scenario("plains", "oak", DEFAULT_SETTINGS,
           <<DoLeafMass(500), DoRun(1, Quiet), DoCommit("trunk"), DoCommit("trunk"), DoCommit("trunk")>>,
           Budget(0, 1, MaxCommits), {<<"trunk", 0, -450>>, <<"trunk", 1, -450>>, <<"trunk", 2, -450>>})

\* the bent seedling after two more segments: 3.1 energy are left, less than the
\* 12 a trunk segment costs
SpentStart ==
  [BentStart EXCEPT !.script = @ \o <<DoCommit("trunk"), DoCommit("trunk")>>,
                    !.budget = Budget(0, 0, 1),
                    !.committed = @ \cup {<<"trunk", 3, -450>>, <<"trunk", 4, -450>>}]

\* the same bent seedling, for one commit and calls of computeCandidates
QueryStart == [BentStart EXCEPT !.budget = [Budget(0, 0, 1) EXCEPT !.queries = MaxQueries]]

\* a leafy plant idle for 899 ticks: herbivory and weather checks are due at tick 900
LeafyStart ==
  Scenario("plains", "wildflower", DEFAULT_SETTINGS,
           <<DoLeafMass(96000), DoRun(899, Quiet)>>, Budget(MaxTicks, 0, 1), {})

\* the leafy wildflower at tick 1600, in flower since summer began and not pollinated
FlowerStart ==
  [LeafyStart EXCEPT !.script = @ \o <<DoRun(701, Quiet)>>, !.budget = Budget(1, 0, 0)]

\* a leafy annual wildflower that flowered in summer, was pollinated at tick 1601
\* and stands at tick 1789, its game set running: the next tick starts autumn
SeededStart ==
  [FlowerStart EXCEPT !.script = @ \o <<DoRun(1, Rnd(500, 0, 999, 999)), DoRun(188, Quiet),
                                         DoSpeed(1)>>,
                      !.budget = Budget(2, 0, 0)]

\* the leafy plant at tick 899 with leaf placement mode just entered
PlacingStart ==
  [LeafyStart EXCEPT !.script = @ \o <<DoEnter("leaf")>>, !.budget = Budget(1, 0, 0)]

\* a grass with every optional subsystem switched off that has grown surface
\* roots for 40 ticks (root mass 25.6, above the 10 that colonisation needs)
BareRootsStart ==
  Scenario("plains", "grass", NO_SETTINGS, <<DoToggle("roots"), DoRun(40, Quiet)>>, Budget(2, 0, 0), {})

\* the energy scenario of spec.md section 8: plains (sunlight 0.8), grass
\* (leafEfficiency 1.0), leafMass 10; the first tick sprouts the seedling and
\* unlocks leaves, then 'leaves' is selected
PhotoStart ==
  Scenario("plains", "grass", DEFAULT_SETTINGS,
           <<DoLeafMass(10000), DoRun(1, Quiet), DoToggle("leaves")>>, Budget(1, 0, 0), {})

\* the dormant willow with 'roots' selected: energy and water suffice, dormancy
\* alone holds growth back
DormantRootsStart ==
  [DormantStart EXCEPT !.script = @ \o <<DoToggle("roots")>>, !.budget = Budget(1, 0, 0)]

\* the leafy plant at tick 899 (energy 0) with 'roots' selected
StarvedStart ==
  [LeafyStart EXCEPT !.script = @ \o <<DoToggle("roots")>>, !.budget = Budget(1, 0, 0)]

\* a sprouted willow whose surface roots have grown for 14 ticks (anchor score 7.86,
\* 8.42 after one more tick) and whose trunk has been raised to 16 by two placed segments
UnlockStart ==
  Scenario("wetlands", "willow", DEFAULT_SETTINGS,
           <<DoLeafMass(500), DoToggle("roots"), DoRun(14, Quiet), DoCommit("trunk"), DoCommit("trunk")>>,
           Budget(2, 0, 0), {<<"trunk", 0, -450>>, <<"trunk", 1, -450>>})

\* the idle willow in a weather event that started at tick 900 (day 91) with the
\* shortest duration, 200 ticks: at tick 1097 the event has three ticks left
EndingStart ==
  [IdleStart EXCEPT !.script = @ \o <<DoRun(1, Rnd(500, 0, 0, 500)), DoRun(197, Quiet)>>,
                    !.budget = Budget(3, 0, 0)]

\* the same willow in an event of the longest duration, 590 ticks, at tick 1488
LongEndingStart ==
  [IdleStart EXCEPT !.script = @ \o <<DoRun(1, Rnd(500, 0, 999, 500)), DoRun(588, Quiet)>>,
                    !.budget = Budget(3, 0, 0)]

\* the willow of EndingStart at tick 1149, its event over since tick 1100: the weather
\* check of tick 1150 falls on day 116, 25 days after the event started
CooldownStart ==
  [EndingStart EXCEPT !.script = @ \o <<DoRun(52, Quiet)>>, !.budget = Budget(2, 0, 0)]

\* the same willow at tick 1798: the weather check of tick 1800 falls on day 181,
\* 90 days after the event started
SecondStart ==
  [CooldownStart EXCEPT !.script = @ \o <<DoRun(649, Quiet)>>, !.budget = Budget(2, 0, 0)]

\* a leafy wildflower with a trunk raised to 16 by two placed segments, at tick 899:
\* the next tick can start an attack of insects or of a grazer
GrazerStart ==
  Scenario("plains", "wildflower", DEFAULT_SETTINGS,
           <<DoLeafMass(96000), DoRun(1, Quiet), DoCommit("trunk"), DoCommit("trunk"),
             DoRun(898, Quiet)>>,
           Budget(2, 0, 0), {<<"trunk", 0, -450>>, <<"trunk", 1, -450>>})

\* a leafy wildflower with a trunk raised to 16 by two placed segments, attacked by a
\* grazer at tick 900 (pressure 0.8): at tick 948 the pressure is down to 0.065
GrazedStart ==
  Scenario("plains", "wildflower", DEFAULT_SETTINGS,
           <<DoLeafMass(96000), DoRun(1, Quiet), DoCommit("trunk"), DoCommit("trunk"),
             DoRun(898, Quiet), DoRun(1, Eventful(500)), DoRun(48, Quiet)>>,
           Budget(3, 0, 0), {<<"trunk", 0, -450>>, <<"trunk", 1, -450>>})

\* a leafy willow (deciduous) in the 24th tick of its first winter: dormancyDepth 0.48
WinterWillowStart ==
  Scenario("wetlands", "willow", DEFAULT_SETTINGS,
           <<DoLeafMass(40000), DoRun(2713, Quiet)>>, Budget(3, 0, 0), {})

\* a leafy cactus (perennial, not deciduous) in the 24th tick of its first winter
WinterCactusStart ==
  Scenario("desert", "cactus", DEFAULT_SETTINGS,
           <<DoLeafMass(40000), DoRun(2713, Quiet)>>, Budget(3, 0, 0), {})

\* a willow left alone until the last but one tick of its first winter (tick 3588):
\* dormant at the target depth; spring begins at tick 3590
SpringStart ==
  [DormantStart EXCEPT !.script = @ \o <<DoRun(848, Quiet)>>, !.budget = Budget(3, 0, 0)]

\* the same willow in the 21st tick of that spring (tick 3610): dormancyDepth 0.06
WakingStart ==
  [SpringStart EXCEPT !.script = @ \o <<DoRun(22, Quiet)>>, !.budget = Budget(3, 0, 0)]

\* an oak on the plains that has grown structural roots for 268 ticks (root mass 43,
\* colonisation 0.03): its health has fallen below 20, and tick 270 is a multiple of 30
DieBackStart ==
  Scenario("plains", "oak", DEFAULT_SETTINGS,
           <<DoToggle("roots"), DoRun(268, Quiet)>>, Budget(3, 0, 0), {})

\* the leafy wildflower (flowers in summer) at tick 1788, in flower since summer and not
\* pollinated: tick 1790 is the first tick of autumn
UnpollinatedStart ==
  [FlowerStart EXCEPT !.script = @ \o <<DoRun(188, Quiet)>>, !.budget = Budget(3, 0, 0)]

\* a willow that grew surface roots for 8 ticks (rootSpread just above the 12 of the first
\* arm), was then left alone, and has stood in a flood since tick 900: at tick 908
\* rootSpread is 12.096, and the flood's die-back of tick 910 takes 0.4 of it
ShrunkStart ==
  Scenario("wetlands", "willow", DEFAULT_SETTINGS,
           <<DoToggle("roots"), DoRun(8, Quiet), DoToggle("roots"), DoRun(891, Quiet),
             DoRun(1, Rnd(500, 0, 999, 500)), DoRun(8, Quiet)>>,
           Budget(3, 0, 0), {})

\* the grown scenarios
Starts ==
  <<TaprootStart, SurfaceStart, ThickStart, StructuralStart, IdleStart,
    SeedlingStart, BentStart, SpentStart, QueryStart, LeafyStart, FloodStart,
    AnnualStart, FlowerStart, SeededStart, DormantStart, PlacingStart,
    BareRootsStart, PhotoStart, DormantRootsStart, StarvedStart, UnlockStart,
    EndingStart, LongEndingStart, CooldownStart, SecondStart, GrazerStart, GrazedStart,
    WinterWillowStart, WinterCactusStart, SpringStart, WakingStart,
    DieBackStart, UnpollinatedStart, ShrunkStart>>

\* the game starts fresh or in one of the grown scenarios
StartsFrom(s) ==
  /\ gs = s[1]
  /\ fuel = s[2]
  /\ last = Op("init", <<>>, Null)
  /\ committed = s[3]

\* script s is the beginning of script t
IsPrefix(s, t) == Len(s) <= Len(t) /\ SubSeq(t, 1, Len(s)) = s

\* the earlier scenarios of the same game whose script scenario n continues
BasesOf(n) ==
  {i \in 1..(n - 1) : /\ Starts[i].biome = Starts[n].biome
                      /\ Starts[i].seed = Starts[n].seed
                      /\ Starts[i].settings = Starts[n].settings
                      /\ IsPrefix(Starts[i].script, Starts[n].script)}

\* the one of them with the longest script, 0 if there is none
BaseOf(n) ==
  IF BasesOf(n) = {} THEN 0
  ELSE CHOOSE i \in BasesOf(n) : \A j \in BasesOf(n) : Len(Starts[j].script) <= Len(Starts[i].script)

\* the steps of scenario n that remain after scenario b (all of them if b = 0)
RestOf(n, b) ==
  IF b = 0 THEN Starts[n].script
  ELSE SubSeq(Starts[n].script, Len(Starts[b].script) + 1, Len(Starts[n].script))

\* the state from which those steps are played
BaseState(states, n, b) ==
  IF b = 0 THEN Fresh(Starts[n].biome, Starts[n].seed, Starts[n].settings) ELSE states[b]

\* the states of the first n scenarios, given those of the first n - 1
GrowNext(states, n) ==
  IF Len(states) # n - 1 THEN states
  ELSE Append(states, Play(BaseState(states, n, BaseOf(n)), RestOf(n, BaseOf(n))))

\* the states of the scenarios up to hi, given those of the scenarios below lo
RECURSIVE GrownStates(_)
GrownStates(r) ==
  IF Len(r.states) >= r.hi THEN r.states
  ELSE IF Len(r.states) + 1 = r.hi THEN GrowNext(r.states, r.hi)
  ELSE GrownStates([states |-> GrownStates([r EXCEPT !.hi = (Len(r.states) + 1 + r.hi) \div 2]),
                    hi |-> r.hi])

\* the state of every scenario, in the order of Starts
GrownAll == GrownStates([states |-> <<>>, hi |-> Len(Starts)])

\* the state, budget and committed ids a scenario starts the exploration with
Grown(sc) == <<GrownAll[CHOOSE i \in DOMAIN Starts : Starts[i] = sc], sc.budget, sc.committed>>

\* the states in which the grown scenarios start
GrownStarts == {Grown(Starts[i]) : i \in DOMAIN Starts}

\* main.js constructor: the controller fields _loopHandle (0 for null), _speed and
\* _lifecompleteShown, the animation-frame callbacks the browser holds for it
\* (pending, out of issued handles), and two observations of its last handler:
\* the ticks it applied and the ticks it applied to a paused state
IdleGame ==
  [loopHandle |-> 0, speed |-> 0, lifecompleteShown |-> FALSE, pending |-> {}, issued |-> 0,
   applied |-> 0, pausedTicks |-> 0]

\* the operations of gameState.js applied directly to a state: the controller stays idle
Init == (\E s \in FreshStarts \cup GrownStarts : StartsFrom(s)) /\ game = IdleGame

\* ------------------------------------------------------------------------
\* Operations
\* ------------------------------------------------------------------------
\* tick(state)
Tick ==
  /\ fuel.ticks > 0
  /\ \E rnd \in RndSet : gs' = simulateTick(gs, rnd)
  /\ fuel' = [fuel EXCEPT !.ticks = @ - 1]
  /\ last' = Op("tick", <<>>, Null)
  /\ UNCHANGED <<committed, game>>

\* click on an action button
ToggleAction ==
  /\ fuel.inputs > 0
  /\ \E a \in ActionIds : gs' = toggleAction(gs, a) /\ last' = Op("toggle", <<>>, a)
  /\ fuel' = [fuel EXCEPT !.inputs = @ - 1]
  /\ UNCHANGED <<committed, game>>

\* click on a root type button
SelectRootType ==
  /\ fuel.inputs > 0
  /\ \E id \in RootTypeIds : gs' = selectRootType(gs, id) /\ last' = Op("rootType", <<>>, id)
  /\ fuel' = [fuel EXCEPT !.inputs = @ - 1]
  /\ UNCHANGED <<committed, game>>

EnterPlacementMode ==
  /\ fuel.inputs > 0
  /\ \E type \in PlacementTypes : gs' = enterPlacementMode(gs, type) /\ last' = Op("enter", <<>>, type)
  /\ fuel' = [fuel EXCEPT !.inputs = @ - 1]
  /\ UNCHANGED <<committed, game>>

\* the commit of candidate c: the candidate's id is recorded when its parent exists
Commit(op, c, type) ==
  /\ gs' = commitPlacement(gs, c, type)
  /\ last' = Op(op, <<c>>, type)
  /\ committed' = IF nodeIndex(gs.plant.nodes, c.parentNodeId) # 0 THEN committed \cup {c.id} ELSE committed
  /\ fuel' = [fuel EXCEPT !.commits = @ - 1]
  /\ UNCHANGED game

\* main.js _handleCanvasClick: commit one of the candidates on display
HandleCanvasClick ==
  /\ fuel.commits > 0
  /\ gs.placement.mode # Null
  /\ \E i \in DOMAIN gs.placement.candidates :
       Commit("click", gs.placement.candidates[i], gs.placement.mode)

\* commitPlacement(state, candidate, type) called directly, with a candidate just
\* returned by computeCandidates or with a candidate whose parent does not exist
CommitPlacement ==
  /\ fuel.commits > 0
  /\ \E type \in PlacementTypes :
       \E c \in Range(computePlacementCandidates(gs, type)) \cup {DanglingCandidate(gs)} :
         Commit("commit", c, type)

\* computeCandidates(state, type) called directly: the function only reads the state;
\* the list it returns is recorded
ComputeCandidates ==
  /\ fuel.queries > 0
  /\ \E type \in PlacementTypes : last' = Op("compute", computePlacementCandidates(gs, type), type)
  /\ fuel' = [fuel EXCEPT !.queries = @ - 1]
  /\ UNCHANGED <<gs, committed, game>>

Next ==
  \/ Tick
  \/ ToggleAction
  \/ SelectRootType
  \/ EnterPlacementMode
  \/ HandleCanvasClick
  \/ CommitPlacement
  \/ ComputeCandidates

Spec == Init /\ [][Next]_vars

\* ------------------------------------------------------------------------
\* main.js: the controller PlantGame and its animation-frame loop
\* ------------------------------------------------------------------------
\* this.gs === null: no game has been started, or the game was restarted
NoGame == [started |-> FALSE]

\* the speed buttons of the interface: pause, slow, normal, fast
Speeds == {-1, 1, 2, 5}

\* bound on the animation-frame handles the browser issues
MaxFrames == 5

\* the game state together with its controller
World(g, c) == [gs |-> g, game |-> c]

\* a handler starts: nothing applied yet
handlerStart(c) == [c EXCEPT !.applied = 0, !.pausedTicks = 0]

\* variant of cancelAnimationFrame: the callback stays pending
cancelAnimationFrameIgnored(c, h) == c

\* cancelAnimationFrame(h): the callback with handle h will not run
cancelAnimationFrame(c, h) == [c EXCEPT !.pending = @ \ {h}]

\* this._loopHandle = requestAnimationFrame(t => this._loop(t))
requestAnimationFrame(c) ==
  [c EXCEPT !.issued = @ + 1, !.pending = @ \cup {c.issued + 1}, !.loopHandle = c.issued + 1]

\* if (this._loopHandle) cancelAnimationFrame(this._loopHandle)
cancelLoop(c) == IF c.loopHandle # 0 THEN cancelAnimationFrame(c, c.loopHandle) ELSE c

\* setSpeed(-1) on a started game: pause, cancel the pending callback, no new loop
pauseGame(w) == World(setSpeed(w.gs, -1), cancelLoop([w.game EXCEPT !.speed = -1]))

\* _updateUI after a tick: the first time lifeComplete is seen the game is paused
updateUI(w) ==
  IF w.gs.lifeComplete /\ ~w.game.lifecompleteShown
  THEN pauseGame(World(w.gs, [w.game EXCEPT !.lifecompleteShown = TRUE]))
  ELSE w

\* simulateTick(this.gs) called by the loop: the call is counted, and counted apart when
\* the state it is applied to is paused
loopTick(w, rnd) ==
  World(simulateTick(w.gs, rnd),
        [w.game EXCEPT !.applied = @ + 1, !.pausedTicks = @ + (IF w.gs.paused THEN 1 ELSE 0)])

\* variant of _loop without the test of gs.paused
loopWhilePaused(w, due, rnd) ==
  World((IF due THEN updateUI(loopTick(w, rnd)) ELSE w).gs,
        requestAnimationFrame((IF due THEN updateUI(loopTick(w, rnd)) ELSE w).game))

\* _loop(now): nothing while paused; one tick if now - _lastTick >= TICK_MS_BASE / _speed
\* (due, for the time at which the browser runs the handler); then the next callback
loop(w, due, rnd) ==
  IF w.gs.paused THEN w
  ELSE World((IF due THEN updateUI(loopTick(w, rnd)) ELSE w).gs,
             requestAnimationFrame((IF due THEN updateUI(loopTick(w, rnd)) ELSE w).game))

\* setSpeed(speed) of the controller
gameSetSpeed(w, speed, due, rnd) ==
  IF w.gs = NoGame THEN World(NoGame, [w.game EXCEPT !.speed = speed])
  ELSE IF speed = -1 THEN pauseGame(w)
  ELSE loop(World(setSpeed(w.gs, speed), cancelLoop([w.game EXCEPT !.speed = speed])), due, rnd)

\* the animation-frame callback with handle h runs _loop (this.gs.paused of a null gs
\* throws and ends the callback)
frameCallback(w, h, due, rnd) ==
  IF w.gs = NoGame THEN World(NoGame, [w.game EXCEPT !.pending = @ \ {h}])
  ELSE loop(World(w.gs, [w.game EXCEPT !.pending = @ \ {h}]), due, rnd)

\* restart(): the pending callback is cancelled and the game dropped
restart(w) == World(NoGame, [cancelLoop(w.game) EXCEPT !.loopHandle = 0])

\* _startGame(): a fresh paused state for the selected biome and seed
startGame(w, biome, seed) ==
  World([addLog(addLog(Fresh(biome, seed, DEFAULT_SETTINGS), "seed settles"), "grow roots first")
           EXCEPT !.paused = TRUE],
        [w.game EXCEPT !.lifecompleteShown = FALSE])

\* the controller of a game in state g that was started and, if it runs, was started
\* with one press of a speed button: its loop callback is pending
ControllerOf(g) ==
  IF g.paused THEN IdleGame
  ELSE [IdleGame EXCEPT !.speed = g.speed, !.loopHandle = 1, !.pending = {1}, !.issued = 1]

\* the page just loaded, and three started games: an annual grass on its last day, a
\* wildflower that has seeded before autumn, and a paused game in leaf placement mode
LoopStarts ==
  {<<NoGame, IdleGame>>} \cup
  {<<Grown(sc)[1], ControllerOf(Grown(sc)[1])>> : sc \in {AnnualStart, SeededStart, PlacingStart}}

LoopInit ==
  /\ \E s \in LoopStarts : gs = s[1] /\ game = s[2]
  /\ fuel = [ticks |-> MaxTicks, inputs |-> 2, commits |-> 1, queries |-> 0]
  /\ last = Op("init", <<>>, Null)
  /\ committed = {}

\* the draws of the ticks the loop applies: a quiet tick, and one in which every event starts
LoopDraws == {Quiet, Eventful(0)}

\* the times the browser can run a handler at: a tick is due or not
Dues == IF fuel.ticks > 0 THEN BOOLEAN ELSE {FALSE}

\* the outcome w of handler op becomes the state
Handled(w, op, arg) ==
  /\ gs' = w.gs
  /\ game' = w.game
  /\ last' = Op(op, <<>>, arg)
  /\ UNCHANGED committed

\* click on a speed button
SetSpeed ==
  /\ fuel.inputs > 0
  /\ game.issued < MaxFrames
  /\ \E speed \in Speeds, due \in Dues, rnd \in LoopDraws :
       /\ Handled(gameSetSpeed(World(gs, handlerStart(game)), speed, due, rnd), "speed", speed)
       /\ fuel' = [fuel EXCEPT !.inputs = @ - 1, !.ticks = @ - game'.applied]

\* the browser runs a pending animation-frame callback
AnimationFrame ==
  /\ game.issued < MaxFrames
  /\ \E h \in game.pending, due \in Dues, rnd \in LoopDraws :
       /\ Handled(frameCallback(World(gs, handlerStart(game)), h, due, rnd), "frame", h)
       /\ fuel' = [fuel EXCEPT !.ticks = @ - game'.applied]

\* click on the restart button
Restart ==
  /\ fuel.inputs > 0
  /\ Handled(restart(World(gs, handlerStart(game))), "restart", Null)
  /\ fuel' = [fuel EXCEPT !.inputs = @ - 1]

\* click on the start button of the start screen, with a biome and a seed selected
StartGame ==
  /\ fuel.inputs > 0
  /\ gs = NoGame
  /\ Handled(startGame(World(gs, handlerStart(game)), "plains", "grass"), "start", Null)
  /\ fuel' = [fuel EXCEPT !.inputs = @ - 1]

\* click on a placement button of a started game
LoopEnterPlacement == gs # NoGame /\ EnterPlacementMode

\* click on the canvas of a started game (every click listener a start has added runs
\* _handleCanvasClick; the first commit leaves placement mode and the others return)
LoopCanvasClick == gs # NoGame /\ HandleCanvasClick

LoopNext ==
  \/ SetSpeed
  \/ AnimationFrame
  \/ Restart
  \/ StartGame
  \/ LoopEnterPlacement
  \/ LoopCanvasClick

LoopSpec == LoopInit /\ [][LoopNext]_vars

\* ------------------------------------------------------------------------
\* Properties
\* ------------------------------------------------------------------------
Pools(g) == <<g.energy, g.water, g.o2, g.co2, g.nitrogen, g.phosphorus, g.potassium, g.health>>

Scalars(g) ==
  <<g.plant.rootDepth, g.plant.rootSpread, g.plant.rootStructural, g.plant.trunkHeight,
    g.plant.trunkGirth, g.plant.branchCount, g.plant.branchLength, g.plant.leafMass,
    g.plant.flowerProgress>>

RootKinds == {"surface", "taproot", "structural"}

Geometry(s) == <<s.x1, s.y1, s.x2, s.y2, s.cpx, s.cpy>>

\* every segment of old is in new with the same endpoints and control point and a width not smaller
Persists(old, new) ==
  \A i \in DOMAIN old :
    \E j \in DOMAIN new : Geometry(new[j]) = Geometry(old[i]) /\ new[j].width >= old[i].width

Counters(rg) == <<rg.surfaceArms, rg.taprootDepth, rg.structuralArms>>

\* the step is a commitPlacement call
IsCommit(l) == l.op \in {"commit", "click"}

\* the candidate's parent is among the nodes
ParentExists(nodes, l) == nodeIndex(nodes, l.candidate[1].parentNodeId) # 0

LeafChildren(nodes, node) ==
  {k \in DOMAIN node.children : childHasType(nodes, node.children[k], "leaf")}

IsTrunkTip(nodes, node) ==
  /\ node.type = "trunk"
  /\ ~\E k \in DOMAIN node.children : childHasType(nodes, node.children[k], "trunk")

\* --- C1 -----------------------------------------------------------------
\* C1: in every state reached by ticks and commits, each of the eight resource
\* pools and each of the nine growth-progress scalars lies in [0,100]
\* (0..100000 milli), also while a weather and a herbivory event are active.
C1_PoolsAndScalarsInRange ==
  /\ \A i \in 1..8 : Pools(gs)[i] >= 0 /\ Pools(gs)[i] <= 100 * M
  /\ \A i \in 1..9 : Scalars(gs)[i] >= 0 /\ Scalars(gs)[i] <= 100 * M

\* a tick has run with a weather event and a herbivory event active, after a commit
C1_Witness ==
  /\ last.op = "tick"
  /\ gs.activeWeatherEvent # Null
  /\ gs.herbivoreEvent
  /\ committed # {}

\* --- C2 -----------------------------------------------------------------
SproutSteps == 4

Sprouted(g) ==
  /\ g.plant.leafMass >= 500
  /\ \E i \in DOMAIN g.plant.nodes : g.plant.nodes[i].type = "trunk" /\ g.plant.nodes[i].parentId = NoParent
  /\ g.unlocked.leaves

\* the states one tick or one player choice away from g (the action chosen through its
\* button, or set directly on the state)
Successors(g) ==
  {simulateTick(g, rnd) : rnd \in RndSet}
  \cup {toggleAction(g, a) : a \in ActionIds}
  \cup {selectRootType(g, id) : id \in RootTypeIds}
  \cup {[g EXCEPT !.activeAction = a] : a \in ActionIds}
  \cup UNION {{commitPlacement(g, c, type) : c \in Range(computePlacementCandidates(g, type))} :
                type \in PlacementTypes}

RECURSIVE ReachableWithin(_, _)
ReachableWithin(S, n) ==
  IF n = 0 THEN S ELSE ReachableWithin(S \cup UNION {Successors(g) : g \in S}, n - 1)

\* the state is one returned by createState
IsCreated == last.op = "init" /\ gs.tick = 0 /\ gs.plant.leafMass = 0

\* C2: from a state returned by createState some sequence of at most SproutSteps
\* ticks and player choices (action, root type, commits of offered candidates)
\* reaches a state with leafMass >= 0.5, the seedling's trunk node and leaves unlocked.
C2_SproutReachable ==
  IsCreated => \E g \in ReachableWithin({gs}, SproutSteps) : Sprouted(g)

\* what holds instead from createState: a game that has no node and no leaf mass stays so
C2_NeverSprouts ==
  [][(gs.plant.leafMass = 0 /\ gs.plant.nodes = <<>> /\ ~gs.unlocked.leaves)
       => (gs'.plant.leafMass = 0 /\ gs'.plant.nodes = <<>> /\ ~gs'.unlocked.leaves)]_vars

C4_RootFrame ==
  /\ [](\A k \in RootKinds : \A i \in DOMAIN gs.plant.rootGraph[k] :
          gs.plant.rootGraph[k][i].width <= gs.plant.rootGraph[k][i].maxWidth)
  /\ [][(last'.op = "tick" /\ Counters(gs'.plant.rootGraph) = Counters(gs.plant.rootGraph))
          => \A k \in RootKinds :
               /\ Len(gs'.plant.rootGraph[k]) = Len(gs.plant.rootGraph[k])
               /\ \A i \in DOMAIN gs.plant.rootGraph[k] :
                    /\ Geometry(gs'.plant.rootGraph[k][i]) = Geometry(gs.plant.rootGraph[k][i])
                    /\ gs'.plant.rootGraph[k][i].width >= gs.plant.rootGraph[k][i].width]_vars

\* after a tick some segment has reached its maximum width while another is still thinner
C4_Witness ==
  /\ last.op = "tick"
  /\ \E i \in DOMAIN gs.plant.rootGraph.surface :
       gs.plant.rootGraph.surface[i].width = gs.plant.rootGraph.surface[i].maxWidth
  /\ \E i \in DOMAIN gs.plant.rootGraph.surface :
       gs.plant.rootGraph.surface[i].width < gs.plant.rootGraph.surface[i].maxWidth

\* --- C5 -----------------------------------------------------------------
NodesLinked(nodes) ==
  /\ \A i, j \in DOMAIN nodes : i # j => nodes[i].id # nodes[j].id
  /\ \A i \in DOMAIN nodes :
       nodes[i].parentId # NoParent =>
         \E p \in DOMAIN nodes :
           /\ nodes[p].id = nodes[i].parentId
           /\ \E k \in DOMAIN nodes[p].children : nodes[p].children[k] = nodes[i].id

\* C5: node ids are pairwise distinct, a node with a parentId has that parent among
\* the nodes with the child's id in its children; no step removes or renumbers a
\* node, and a node created by a step has an id greater than every earlier id.
C5_NodeIds ==
  /\ [](NodesLinked(gs.plant.nodes))
  /\ [][/\ Len(gs'.plant.nodes) >= Len(gs.plant.nodes)
        /\ \A i \in DOMAIN gs.plant.nodes : gs'.plant.nodes[i].id = gs.plant.nodes[i].id
        /\ \A j \in DOMAIN gs'.plant.nodes :
             j > Len(gs.plant.nodes) =>
               \A i \in DOMAIN gs.plant.nodes : gs'.plant.nodes[j].id > gs.plant.nodes[i].id]_vars

\* a leaf has been committed onto a trunk segment that was itself committed
C5_Witness ==
  /\ IsCommit(last)
  /\ Len(gs.plant.nodes) >= 3
  /\ \E i \in DOMAIN gs.plant.nodes :
       /\ gs.plant.nodes[i].type = "leaf"
       /\ gs.plant.nodes[i].parentId > 0

\* --- C6 -----------------------------------------------------------------
\* C6: commitPlacement with a candidate whose parentNodeId matches no node leaves
\* the whole state unchanged (nodes, nextNodeId, pools, scalars, log, placement).
C6_DanglingCommitIsNoOp ==
  [][(IsCommit(last') /\ ~ParentExists(gs.plant.nodes, last')) => gs' = gs]_vars

\* a commit with a missing parent has been made while placement mode was on
C6_Witness ==
  /\ IsCommit(last)
  /\ ~ParentExists(gs.plant.nodes, last)
  /\ gs.placement.mode # Null
  /\ gs.plant.nodes # <<>>

\* --- C7 -----------------------------------------------------------------
\* C7: commitPlacement with a candidate whose parent exists appends exactly one
\* node of the given type with parentId the candidate's parentNodeId, appends the
\* new id to that parent's children, advances nextNodeId by one, leaves every
\* other node as it was, and ends with placement.mode null and no candidates.
C7_CommitAppendsOneNode ==
  [][(IsCommit(last') /\ ParentExists(gs.plant.nodes, last')) =>
       LET old == gs.plant.nodes
           new == gs'.plant.nodes
           c   == last'.candidate[1]
           p   == nodeIndex(old, c.parentNodeId)
           n   == Len(old) + 1
       IN /\ Len(new) = n
          /\ new[n].type = last'.type
          /\ new[n].parentId = c.parentNodeId
          /\ new[n].id = gs.plant.nextNodeId
          /\ new[n].children = <<>>
          /\ gs'.plant.nextNodeId = gs.plant.nextNodeId + 1
          /\ new[p].children = Append(old[p].children, new[n].id)
          /\ \A i \in DOMAIN old :
               /\ [new[i] EXCEPT !.children = <<>>] = [old[i] EXCEPT !.children = <<>>]
               /\ (i # p => new[i].children = old[i].children)
          /\ gs'.placement.mode = Null
          /\ gs'.placement.candidates = <<>>]_vars

\* a leaf picked in placement mode has been committed
C7_Witness ==
  /\ last.op = "click"
  /\ last.type = "leaf"
  /\ ParentExists(gs.plant.nodes, last)
  /\ gs.plant.nodes[Len(gs.plant.nodes)].type = "leaf"

\* --- C8 -----------------------------------------------------------------
Sat(v) == IF v < 0 THEN 0 ELSE v

Cap(v) == IF v > 100 * M THEN 100 * M ELSE v

\* C8: a successful commit charges exactly the fixed cost, saturating at 0 (trunk:
\* 12 energy, 6 phosphorus, 4 nitrogen, 6 water, +8 trunkHeight, +3 trunkGirth;
\* leaf: 8 energy, 5 water, 3 nitrogen, 1 potassium, +6 leafMass, +4 branchLength,
\* capped at 100), changes no other pool or growth scalar, and is made whether or
\* not the pools cover the cost or the unlock flag is set.
C8_CommitCost ==
  [][(IsCommit(last') /\ ParentExists(gs.plant.nodes, last')) =>
       IF last'.type = "trunk"
       THEN /\ Pools(gs') = <<Sat(gs.energy - 12000), Sat(gs.water - 6000), gs.o2, gs.co2,
                              Sat(gs.nitrogen - 4000), Sat(gs.phosphorus - 6000), gs.potassium, gs.health>>
            /\ Scalars(gs') = [Scalars(gs) EXCEPT ![4] = Cap(@ + 8000), ![5] = Cap(@ + 3000)]
       ELSE /\ Pools(gs') = <<Sat(gs.energy - 8000), Sat(gs.water - 5000), gs.o2, gs.co2,
                              Sat(gs.nitrogen - 3000), gs.phosphorus, Sat(gs.potassium - 1000), gs.health>>
            /\ Scalars(gs') = [Scalars(gs) EXCEPT ![7] = Cap(@ + 4000), ![8] = Cap(@ + 6000)]]_vars

\* a trunk segment has been committed with the trunk locked and less than 12 energy left
C8_Witness ==
  /\ IsCommit(last)
  /\ last.type = "trunk"
  /\ ParentExists(gs.plant.nodes, last)
  /\ ~gs.unlocked.trunk
  /\ gs.energy = 0
  /\ gs.plant.trunkHeight >= 32000

\* --- C9 -----------------------------------------------------------------
\* C9: the leaf candidates never include a candidate that was already committed,
\* and none is offered on a trunk node that has two leaf children.
C9_LeafNotOfferedTwice ==
  \A c \in Range(computePlacementCandidates(gs, "leaf")) :
    /\ c.id \notin committed
    /\ LET p == nodeIndex(gs.plant.nodes, c.parentNodeId)
       IN Cardinality(LeafChildren(gs.plant.nodes, gs.plant.nodes[p])) < 2

\* --- C10 ----------------------------------------------------------------
\* C10: the trunk candidates are exactly three (left, straight, right at -0.45, 0,
\* +0.45 rad, ids distinct) for each trunk node without a trunk child and none for
\* any other node; the list is empty exactly when there is no such node.
C10_ThreeTrunkCandidatesPerTip ==
  LET nodes == gs.plant.nodes
      cands == computePlacementCandidates(gs, "trunk")
      of(node) == {k \in DOMAIN cands : cands[k].parentNodeId = node.id}
  IN /\ \A i \in DOMAIN nodes :
          IF IsTrunkTip(nodes, nodes[i])
          THEN /\ Cardinality(of(nodes[i])) = 3
               /\ {cands[k].angle - nodes[i].angle : k \in of(nodes[i])} = {-450, 0, 450}
               /\ Cardinality({cands[k].id : k \in of(nodes[i])}) = 3
          ELSE of(nodes[i]) = {}
     /\ \A k \in DOMAIN cands : \E i \in DOMAIN nodes : nodes[i].id = cands[k].parentNodeId
     /\ (cands = <<>>) <=> ~\E i \in DOMAIN nodes : IsTrunkTip(nodes, nodes[i])
     /\ (nodes = <<>> => cands = <<>>)

\* a trunk with a committed segment and a leaf: only the tip is offered candidates
C10_Witness ==
  /\ IsCommit(last)
  /\ \E i \in DOMAIN gs.plant.nodes : gs.plant.nodes[i].type = "leaf"
  /\ \E i \in DOMAIN gs.plant.nodes :
       gs.plant.nodes[i].type = "trunk" /\ ~IsTrunkTip(gs.plant.nodes, gs.plant.nodes[i])
  /\ Len(computePlacementCandidates(gs, "trunk")) = 3

\* --- C11 ----------------------------------------------------------------
\* a state that shares with g only the node graph, trunkHeight and leafMass
Skeleton(g) ==
  [createGameState("desert", "cactus", NO_SETTINGS, MidDraw) EXCEPT
     !.plant.nodes = g.plant.nodes,
     !.plant.trunkHeight = g.plant.trunkHeight,
     !.plant.leafMass = g.plant.leafMass,
     !.plant.nextNodeId = 0,
     !.tick = 7]

BaseNodes(g) == {i \in DOMAIN g.plant.nodes : g.plant.nodes[i].parentId = NoParent}

TickSeeds(g, h, rnd) ==
  IF Len(g.plant.nodes) = 0 /\ physiology(g, rnd).plant.leafMass >= 500
  THEN /\ Len(h.plant.nodes) = 1
       /\ h.plant.nodes[1].type = "trunk"
       /\ h.plant.nodes[1].parentId = NoParent
       /\ h.plant.nextNodeId = g.plant.nextNodeId + 1
  ELSE /\ h.plant.nodes = g.plant.nodes
       /\ h.plant.nextNodeId = g.plant.nextNodeId

C12_TickSeedsOnlyBaseNode ==
  /\ [](Cardinality(BaseNodes(gs)) <= 1)
  /\ [][last'.op = "tick" =>
          \E rnd \in RndSet : gs' = simulateTick(gs, rnd) /\ TickSeeds(gs, gs', rnd)]_vars

\* a tick has just sprouted the seedling: the graph holds the base node alone
C12_Witness ==
  /\ last.op = "tick"
  /\ gs.tick = 1
  /\ Len(gs.plant.nodes) = 1
  /\ gs.plant.nodes[1].parentId = NoParent
  /\ gs.plant.nextNodeId = 1

\* ------------------------------------------------------------------------
\* C13: each of unlocked.trunk, unlocked.branches, unlocked.leaves and
\* unlocked.flower is one-way: once true it is true after every later tick,
\* commit or input, also when roots or trunk shrink below the threshold.
\* ------------------------------------------------------------------------
UnlockFlags == {"trunk", "branches", "leaves", "flower"}

C13_UnlocksOneWay ==
  [][\A f \in UnlockFlags : gs.unlocked[f] => gs'.unlocked[f]]_vars

\* a tick in a flood has ended with the trunk unlocked and the anchor score
\* below the unlock threshold
C13_Witness ==
  /\ last.op = "tick"
  /\ gs.activeWeatherEvent = "flood"
  /\ gs.unlocked.trunk
  /\ anchorScore(gs.plant) < 8000

\* ------------------------------------------------------------------------
\* C14: with hydraulicFailure enabled, xylemIntegrity does not increase over
\* a tick unless water > 50 and health > 60 hold when the hydraulics step
\* runs, and it decreases only on ticks with tick mod 5 = 0 whose tension
\* exceeds the seed's cavitation threshold.
\* ------------------------------------------------------------------------
\* the state on which updateHydraulics runs in the tick that starts in g
AtHydraulics(g, rnd) == stomataStep(updateEnvironment(advanceClock(g), rnd))

\* xylem tension as updateHydraulics computes it
Tension(g) ==
  Mul(Mul(Mul(g.plant.leafMass \div 100, SEEDS[g.seed].waterNeed), M - Mul(g.stomata, 700)),
      Max(0, (30000 - g.water) \div 30))

Cavitates(g) == g.tick % 5 = 0 /\ Tension(g) > SEEDS[g.seed].cavitationResistance

XylemStep(g, h, rnd) ==
  /\ h.xylemIntegrity > g.xylemIntegrity =>
        AtHydraulics(g, rnd).water > 50000 /\ AtHydraulics(g, rnd).health > 60000
  /\ h.xylemIntegrity < g.xylemIntegrity => Cavitates(AtHydraulics(g, rnd))

C14_XylemChangesOnlyByRule ==
  [][(last'.op = "tick" /\ gs.settings.hydraulicFailure) =>
       \E rnd \in RndSet : gs' = simulateTick(gs, rnd) /\ XylemStep(gs, gs', rnd)]_vars

\* the leafy plant at the start of its scenario (tick 899)
LeafyState == Grown(LeafyStart)[1]

\* a tick of the leafy plant's scenario has just cavitated: tick 900 lowered
\* xylemIntegrity below its value at the start of the scenario
C14_Witness ==
  /\ last.op = "tick"
  /\ gs.settings.hydraulicFailure
  /\ gs.seed = LeafyStart.seed
  /\ gs.tick = 900
  /\ gs.xylemIntegrity < LeafyState.xylemIntegrity

\* ------------------------------------------------------------------------
\* C15: with lifeCycles enabled and an annual seed, the first tick at whose
\* life-cycle step day > 270, or seedsProduced > 0 with season autumn or
\* winter, sets lifeComplete = true and paused = true (an annual reaching day
\* 271 with seedsProduced = 0 has lifeComplete = true); lifeComplete never
\* returns to false.
\* ------------------------------------------------------------------------
\* the state on which updateLifeCycle runs in the tick that starts in g
AtLifeCycle(g, rnd) == floweringStep(structure(physiology(g, rnd)), rnd)

AnnualEnds(g) == g.day > 270 \/ (g.plant.seedsProduced > 0 /\ g.season \in {2, 3})

IsAnnual(g) == g.settings.lifeCycles /\ SEEDS[g.seed].lifespan = "annual"

C15_AnnualCompletes ==
  /\ [][gs.lifeComplete => gs'.lifeComplete]_vars
  /\ [][(last'.op = "tick" /\ IsAnnual(gs) /\ ~gs.lifeComplete) =>
          \E rnd \in RndSet :
             /\ gs' = simulateTick(gs, rnd)
             /\ gs'.lifeComplete = AnnualEnds(AtLifeCycle(gs, rnd))
             /\ gs'.lifeComplete => gs'.paused]_vars
  /\ []((IsAnnual(gs) /\ gs.day >= 271) => gs.lifeComplete)

\* the running game's tick into day 271 has completed the life of an annual
\* that produced no seeds, and paused the game
C15_Witness ==
  /\ last.op = "tick"
  /\ IsAnnual(gs)
  /\ gs.tick = 2700 /\ gs.day = 271
  /\ gs.plant.seedsProduced = 0
  /\ gs.lifeComplete /\ gs.paused
  /\ gs.speed = 1

\* ------------------------------------------------------------------------
\* C16: in every state reached by ticks, stomata, mycorrhizalColonisation,
\* dormancyDepth and herbivorePressure are within [0,1] and xylemIntegrity
\* is within [0.05, 1.0].
\* ------------------------------------------------------------------------
C16_UnitFieldsInRange ==
  /\ gs.stomata \in 0..M
  /\ gs.mycorrhizalColonisation \in 0..(M * M)
  /\ gs.dormancyDepth \in 0..M
  /\ gs.herbivorePressure \in 0..M
  /\ gs.xylemIntegrity \in 50000..(M * M)

\* a winter tick of a dormant perennial whose dormancyDepth is held at the
\* target depth 0.9
C16_Witness ==
  /\ last.op = "tick"
  /\ gs.season = 3
  /\ gs.dormant
  /\ gs.dormancyDepth = 900
  /\ gs.tick > 2740

\* ------------------------------------------------------------------------
\* C17: while placement.mode is non-null, after every tick
\* placement.candidates equals computeCandidates(state, placement.mode)
\* evaluated on the post-tick state.
\* ------------------------------------------------------------------------
C17_CandidatesFreshAfterTick ==
  [][(last'.op = "tick" /\ gs'.placement.mode # Null) =>
       gs'.placement.candidates = computePlacementCandidates(gs', gs'.placement.mode)]_vars

\* ------------------------------------------------------------------------
\* C18: in every state after a tick a disabled subsystem's output holds its
\* neutral value: stomata = 1.0 when stomatalRegulation is off,
\* xylemIntegrity = 1.0 when hydraulicFailure is off, mycorrhizalBonus = 0
\* and mycorrhizalColonisation = 0 when mycorrhizae is off; tick and
\* commitPlacement never modify the settings.
\* ------------------------------------------------------------------------
NeutralWhenOff(g) ==
  /\ ~g.settings.stomatalRegulation => g.stomata = M
  /\ ~g.settings.hydraulicFailure => g.xylemIntegrity = M * M
  /\ ~g.settings.mycorrhizae => (g.mycorrhizalBonus = 0 /\ g.mycorrhizalColonisation = 0)

rootMass(g) == (g.plant.rootSpread + g.plant.rootDepth + g.plant.rootStructural) \div 3

C18_DisabledSubsystemsNeutral ==
  /\ [](gs.tick > 0 => NeutralWhenOff(gs))
  /\ [][gs'.settings = gs.settings]_vars

\* a tick has run with all three subsystems off on a plant whose root mass
\* would let fungi colonise it
C18_Witness ==
  /\ last.op = "tick"
  /\ ~gs.settings.stomatalRegulation /\ ~gs.settings.hydraulicFailure /\ ~gs.settings.mycorrhizae
  /\ rootMass(gs) >= 10000
  /\ gs.stomata = M /\ gs.xylemIntegrity = M * M
  /\ gs.mycorrhizalBonus = 0 /\ gs.mycorrhizalColonisation = 0

\* ------------------------------------------------------------------------
\* C19: in a tick where no pool is clamped, the photosynthesis contribution
\* to energy equals leafArea * sunlight * leafEfficiency * co2Factor *
\* temperatureFactor * actionBonus * (1 - dormancyDepth*0.9), with
\* leafArea = leafMass/100, co2Factor = clamp(co2/60, 0.1, 1.5) * stomata,
\* temperatureFactor = 1 when tempOptima is off and actionBonus = 1.3 iff
\* activeAction is 'leaves', and the energy change of the tick's resource
\* flows is photosynthesis + seed trickle - respiration - growth cost.
\* ------------------------------------------------------------------------
\* the state on which computeResourceFlows runs in the tick that starts in g
AtFlows(g, rnd) == hydraulicsStep(stomataStep(updateEnvironment(advanceClock(g), rnd)))

\* photosynthesis as the statement gives it
StatedPhotosynthesis(g) ==
  Mul(Mul(Mul(Mul(Mul(Mul(g.plant.leafMass \div 100, g.env.sunlight), SEEDS[g.seed].leafEfficiency),
                  Mul(clamp(g.co2 \div 60, 100, 1500), g.stomata)),
              IF g.settings.tempOptima THEN _tempFactor(g.env.temperature, SEEDS[g.seed].tempOptimum, 8) ELSE M),
          IF g.activeAction = "leaves" THEN 1300 ELSE M),
      M - Mul(g.dormancyDepth, 900))

SeedTrickle(g) == IF g.plant.leafMass < 5000 THEN 3500 ELSE 0

\* respiration cost times the respiration modifier, from the recorded flow
Respiration(g, k) ==
  LET tempOpt    == SEEDS[g.seed].tempOptimum
      heatStress == IF g.settings.tempOptima THEN Max(0, (g.env.temperature - (tempOpt + 12000)) \div 15) ELSE 0
      coldStress == IF g.settings.tempOptima THEN Max(0, ((tempOpt - 15000) - g.env.temperature) \div 15) ELSE 0
  IN Mul(k.flows.respireCost, M + Mul(heatStress, 1500) + Mul(coldStress, 500))

NoPoolClamped(k) ==
  \A p \in {k.energy, k.water, k.nitrogen, k.phosphorus, k.potassium, k.o2, k.co2} :
     p > 0 /\ p < RESOURCE_MAX

EnergyAsStated(g, k) ==
  NoPoolClamped(k) =>
    k.energy - g.energy = StatedPhotosynthesis(g) + SeedTrickle(g) - Respiration(g, k)
                            - growCost(g.activeAction).energy

C19_EnergyFollowsStatedFormula ==
  [][last'.op = "tick" =>
       \E rnd \in RndSet :
          /\ gs' = simulateTick(gs, rnd)
          /\ EnergyAsStated(AtFlows(gs, rnd), computeResourceFlows(AtFlows(gs, rnd)))]_vars

\* ------------------------------------------------------------------------
\* C20: the growth allocator changes a growth-progress scalar in a tick only
\* if an action is selected, energy >= 5 and water >= 3 after this tick's
\* flows, the plant is not dormant and, for trunk, branches and leaves, the
\* matching unlock flag is true; otherwise it leaves all nine growth scalars
\* unchanged in that tick.
\* ------------------------------------------------------------------------
\* the state on which applyGrowth runs in the tick that starts in g
AtGrowth(g, rnd) == computeResourceFlows(AtFlows(g, rnd))

MayGrow(g) ==
  /\ g.activeAction # Null
  /\ g.energy >= 5000
  /\ g.water >= 3000
  /\ ~g.dormant
  /\ g.activeAction \in {"trunk", "branches", "leaves"} => g.unlocked[g.activeAction]

C20_GrowthOnlyWhenAllowed ==
  [][last'.op = "tick" =>
       \E rnd \in RndSet :
          /\ gs' = simulateTick(gs, rnd)
          /\ (Scalars(applyGrowth(AtGrowth(gs, rnd))) # Scalars(AtGrowth(gs, rnd))
                => MayGrow(AtGrowth(gs, rnd)))]_vars

\* a tick of a dormant plant with 'roots' selected and resources to spare has
\* left the roots where they were
C20_Witness ==
  /\ last.op = "tick"
  /\ gs.activeAction = "roots"
  /\ gs.dormant
  /\ gs.energy >= 5000 /\ gs.water >= 3000
  /\ gs.plant.rootSpread = 0 /\ gs.plant.rootDepth = 0 /\ gs.plant.rootStructural = 0

\* ------------------------------------------------------------------------
\* C21: in every tick with an action selected the flows deduct 2.0 energy,
\* 1.5 water for 'roots' or 0.8 water otherwise, and a nutrient cost of 1.2
\* for 'trunk', 1.0 for 'branches', 0.6 for 'leaves' (split 50/30/20 over
\* N/P/K), whether or not anything grows in that tick; with no action
\* selected none of these costs is deducted.
\* ------------------------------------------------------------------------
\* g: the state before the flows, k: the state after them
FlowsCharge(g, k) ==
  LET a  == g.activeAction
      e  == IF a = Null THEN 0 ELSE 2000
      w  == IF a = Null THEN 0 ELSE IF a = "roots" THEN 1500 ELSE 800
      n  == IF a = "trunk" THEN 1200 ELSE IF a = "branches" THEN 1000 ELSE IF a = "leaves" THEN 600 ELSE 0
      dd == g.dormancyDepth
  IN /\ k.energy = clamp(g.energy + Mul(k.flows.photoRate, M - Mul(dd, 900)) + SeedTrickle(g)
                            - Respiration(g, k) - e, 0, RESOURCE_MAX)
     /\ k.water = clamp(g.water + k.flows.waterIn - Mul(k.flows.transpire, M - Mul(dd, 800)) - w,
                        0, RESOURCE_MAX)
     /\ a # "roots" =>
          /\ k.nitrogen   = clamp(g.nitrogen   + k.flows.nIn - Mul(n, 500), 0, RESOURCE_MAX)
          /\ k.phosphorus = clamp(g.phosphorus + k.flows.pIn - Mul(n, 300), 0, RESOURCE_MAX)
          /\ k.potassium  = clamp(g.potassium  + k.flows.kIn - Mul(n, 200), 0, RESOURCE_MAX)

DormantRootsState == Grown(DormantRootsStart)[1]

AtUnlocks(g, rnd) == seedBaseNode(updateRootGraph(physiology(g, rnd)))

\* g: the state before the tick, h: the state after it, k: the state at the check
UnlocksByRule(g, h, k) ==
  /\ h.unlocked.trunk    = (g.unlocked.trunk    \/ anchorScore(k.plant) >= 8000)
  /\ h.unlocked.branches = (g.unlocked.branches \/ k.plant.trunkHeight >= 16000)
  /\ h.unlocked.leaves   = (g.unlocked.leaves   \/ Len(k.plant.nodes) > 0)

C22_UnlockAtFirstCheck ==
  [][last'.op = "tick" =>
       \E rnd \in RndSet :
          /\ gs' = simulateTick(gs, rnd)
          /\ UnlocksByRule(gs, gs', AtUnlocks(gs, rnd))]_vars

\* the willow at the start of the unlock scenario (tick 14): trunk and branches locked
UnlockState == Grown(UnlockStart)[1]

\* the tick after the start of the unlock scenario has unlocked trunk and branches
C22_Witness ==
  /\ last.op = "tick"
  /\ gs.tick = UnlockState.tick + 1
  /\ gs.seed = UnlockStart.seed
  /\ ~UnlockState.unlocked.trunk /\ ~UnlockState.unlocked.branches
  /\ anchorScore(UnlockState.plant) < 8000
  /\ gs.unlocked.trunk /\ gs.unlocked.branches
  /\ anchorScore(gs.plant) >= 8000 /\ gs.plant.trunkHeight >= 16000

\* ------------------------------------------------------------------------
\* C23: after every tick env.sunlight and env.rainfall are within [0,1]
\* (also while a drought or flood is active) and env.temperature lies
\* within the biome's temperature range [tempRange[0], tempRange[1]], in
\* every season and for every noise draw.
\* ------------------------------------------------------------------------
C23_EnvironmentInRange ==
  gs.tick > 0 =>
    /\ gs.env.sunlight \in 0..M
    /\ gs.env.rainfall \in 0..M
    /\ gs.env.temperature >= BIOMES[gs.biome].tempRange[1]
    /\ gs.env.temperature <= BIOMES[gs.biome].tempRange[2]

\* ------------------------------------------------------------------------
\* C24: while a drought is active, the rainfall value used by each tick's
\* water-uptake computation (rain capture in the resource flows) is at most
\* 0.05: the drought's suppression of rainfall reaches the flows of the
\* ticks during which the drought lasts.
\* ------------------------------------------------------------------------
C24_DroughtReachesFlows ==
  [][(last'.op = "tick" /\ gs.activeWeatherEvent = "drought") =>
       \E rnd \in RndSet :
          /\ gs' = simulateTick(gs, rnd)
          /\ AtFlows(gs, rnd).env.rainfall <= 50]_vars

\* the tick has started a weather event: one is active afterwards and its timer does
\* not continue the timer of an event that was active before
Started(g, h) == h.activeWeatherEvent # Null /\ h.weatherEventTimer # g.weatherEventTimer - 1

\* C25: a weather event starts only with weatherEvents enabled, in a tick with
\* tick mod 50 = 0, with no event active before the tick (so not in the tick in which
\* another ends), and at least 90 days after the day on which the previous event
\* started (day 0 if there was none, so not before day 90)
C25_WeatherStartRule ==
  [][(last'.op = "tick" /\ Started(gs, gs')) =>
       /\ gs.settings.weatherEvents
       /\ gs'.tick % 50 = 0
       /\ gs.activeWeatherEvent = Null
       /\ gs'.day - gs.weatherEventLog >= 90
       /\ gs'.day >= 90
       /\ gs'.weatherEventLog = gs'.day]_vars

\* a second event has started at tick 1800, exactly 90 days after the first
C25_Witness ==
  /\ last.op = "tick"
  /\ gs.tick = 1800
  /\ gs.activeWeatherEvent # Null
  /\ gs.weatherEventLog = 181
  /\ gs.weatherEventTimer \in {200, 590}

\* the durations (20 + Math.floor(Math.random() * 40)) * 10 can take
Durations == {(20 + k) * 10 : k \in 0..39}

\* the tick in which the last weather event started: the first tick of day weatherEventLog
StartTick(g) == (g.weatherEventLog - 1) * 10

\* C26: an active weather event has a timer above 0 and no event has timer 0; an
\* active event is due to end d ticks after its start for a duration d of 200 to 590
\* ticks; each tick of an active event takes one off the timer and keeps the type, and
\* the tick that brings the timer to 0 ends the event
C26_WeatherDuration ==
  /\ [](gs.activeWeatherEvent # Null <=> gs.weatherEventTimer > 0)
  /\ [](gs.activeWeatherEvent # Null =>
          (gs.tick + gs.weatherEventTimer) - StartTick(gs) \in Durations)
  /\ [][(last'.op = "tick" /\ gs.activeWeatherEvent # Null) =>
          IF gs.weatherEventTimer - 1 <= 0
          THEN gs'.activeWeatherEvent = Null /\ gs'.weatherEventTimer = 0
          ELSE /\ gs'.activeWeatherEvent = gs.activeWeatherEvent
               /\ gs'.weatherEventTimer = gs.weatherEventTimer - 1]_vars

\* the willow at tick 1097, in the event of 200 ticks that started at tick 900
EndingState == Grown(EndingStart)[1]

\* that event has ended at tick 1100, 200 ticks after its start
C26_Witness ==
  /\ EndingState.tick = 1097
  /\ EndingState.activeWeatherEvent # Null
  /\ EndingState.weatherEventTimer = 3
  /\ StartTick(EndingState) = 900
  /\ last.op = "tick"
  /\ gs.tick = 1100
  /\ gs.weatherEventLog = EndingState.weatherEventLog
  /\ gs.activeWeatherEvent = Null
  /\ gs.weatherEventTimer = 0

\* the state on which the herbivory step of a tick runs
AtHerbivory(g, rnd) == mycorrhizaeStep(cambiumStep(lifeCycleStep(AtLifeCycle(g, rnd))))

\* C27: a herbivore event starts only with herbivory enabled, in a tick with
\* tick mod 20 = 0, with no event active and a leaf mass above 10 when the check runs;
\* each tick of an active event takes 0.015 off the pressure, and ends the event with
\* pressure 0 when that leaves less than 0.05; an active event has a pressure of at
\* least 0.05 and at most 0.785 after the tick that started it, so that it ends within
\* 51 ticks of its start; without an event the pressure is 0
C27_HerbivoryRule ==
  /\ [](~gs.herbivoreEvent => gs.herbivorePressure = 0)
  /\ [](gs.herbivoreEvent => (gs.herbivorePressure >= 50 /\ gs.herbivorePressure <= 785))
  /\ [][last'.op = "tick" =>
          \E rnd \in RndSet :
             /\ gs' = simulateTick(gs, rnd)
             /\ (~gs.herbivoreEvent /\ gs'.herbivoreEvent) =>
                   /\ gs.settings.herbivory
                   /\ gs'.tick % 20 = 0
                   /\ AtHerbivory(gs, rnd).plant.leafMass > 10000
             /\ gs.herbivoreEvent =>
                   IF gs.herbivorePressure - 15 < 50
                   THEN ~gs'.herbivoreEvent /\ gs'.herbivorePressure = 0
                   ELSE gs'.herbivoreEvent /\ gs'.herbivorePressure = gs.herbivorePressure - 15]_vars

\* the grazed wildflower at tick 948
GrazedState == Grown(GrazedStart)[1]

\* the grazer's attack of tick 900 has ended at tick 950, in its 51st tick
C27_Witness ==
  /\ GrazedState.tick = 948
  /\ GrazedState.herbivoreEvent
  /\ GrazedState.herbivorePressure = 785 - (48 * 15)
  /\ last.op = "tick"
  /\ gs.tick = 950
  /\ gs.seed = GrazedState.seed
  /\ gs.plant.trunkHeight = GrazedState.plant.trunkHeight
  /\ ~gs.herbivoreEvent
  /\ gs.herbivorePressure = 0

\* the tick has put the plant into dormancy
FallsDormant(g, h) == ~g.dormant /\ h.dormant

\* the leaf mass a plant of that seed keeps when it goes dormant
LeafMassKept(seed, leafMass) == Mul(leafMass, IF SEEDS[seed].deciduous THEN 150 ELSE 750)

\* C28: dormancyDepth never exceeds 0.9 and a dormant plant has a dormancyDepth above
\* 0; the plant goes dormant only with lifeCycles enabled and a perennial seed, in a
\* winter tick that takes dormancyDepth from at most 0.5 to above 0.5; the life-cycle
\* step of such a tick cuts the leaf mass to 15% (deciduous) or 75%, and the
\* life-cycle step of any other tick leaves the leaf mass alone
C28_DormancyRule ==
  /\ [](gs.dormancyDepth <= 900)
  /\ [](gs.dormant => gs.dormancyDepth > 0)
  /\ [][last'.op = "tick" =>
          \E rnd \in RndSet :
             /\ gs' = simulateTick(gs, rnd)
             /\ FallsDormant(gs, gs') =>
                   /\ gs.settings.lifeCycles
                   /\ SEEDS[gs.seed].lifespan = "perennial"
                   /\ gs'.season = 3
                   /\ gs.dormancyDepth <= 500
                   /\ gs'.dormancyDepth > 500
             /\ lifeCycleStep(AtLifeCycle(gs, rnd)).plant.leafMass =
                   IF FallsDormant(gs, gs')
                   THEN LeafMassKept(gs.seed, AtLifeCycle(gs, rnd).plant.leafMass)
                   ELSE AtLifeCycle(gs, rnd).plant.leafMass]_vars

\* the leafy willow at tick 2713
WinterWillowState == Grown(WinterWillowStart)[1]

\* the willow has gone dormant at tick 2715 and kept 15% of its leaf mass; the tick
\* after that has not cut it again
C28_Witness ==
  /\ WinterWillowState.plant.leafMass = 40000
  /\ ~WinterWillowState.dormant
  /\ last.op = "tick"
  /\ gs.tick = 2716
  /\ gs.seed = "willow"
  /\ gs.dormant
  /\ gs.dormancyDepth = 540
  /\ gs.plant.leafMass > 5000
  /\ gs.plant.leafMass <= 6000

\* the number of the current tick within its spring: spring begins with day 0 of the
\* 360-day year, ten ticks before the tick count reaches a multiple of 3600
SpringTick(g) == ((g.tick + 10) % 3600) + 1

\* C29: a plant that is still dormant in the k-th tick of a spring has a dormancyDepth
\* above 0 and at most 0.9 - 0.04 k, and from the 23rd tick of a spring on the plant is
\* awake with dormancyDepth 0; a spring tick takes 0.04 off the depth of a dormant
\* plant and wakes it when the depth reaches 0; a plant that is awake stays awake
\* through every tick outside winter
C29_SpringWake ==
  /\ []((gs.season = 0 /\ gs.dormant) =>
          (gs.dormancyDepth > 0 /\ gs.dormancyDepth <= 900 - (40 * SpringTick(gs))))
  /\ []((gs.season = 0 /\ SpringTick(gs) >= 23) => (~gs.dormant /\ gs.dormancyDepth = 0))
  /\ [][(last'.op = "tick" /\ gs'.season = 0 /\ gs.dormant) =>
          /\ gs'.dormancyDepth = Max(gs.dormancyDepth - 40, 0)
          /\ gs'.dormant = (gs'.dormancyDepth > 0)]_vars
  /\ [][(last'.op = "tick" /\ gs'.season # 3 /\ ~gs.dormant) => ~gs'.dormant]_vars

\* the willow in the 21st tick of the spring
WakingState == Grown(WakingStart)[1]

\* the willow, dormant with depth 0.06 at tick 3610, is awake at tick 3612, the 23rd
\* tick of the spring
C29_Witness ==
  /\ WakingState.tick = 3610
  /\ WakingState.dormant
  /\ WakingState.dormancyDepth = 60
  /\ last.op = "tick"
  /\ gs.tick = 3612
  /\ gs.season = 0
  /\ SpringTick(gs) = 23
  /\ ~gs.dormant
  /\ gs.dormancyDepth = 0

\* C30: with hydraulicFailure enabled, every tick that lowers xylemIntegrity raises
\* cavitationEvents by one, and no step lowers cavitationEvents
C30_CavitationCounted ==
  /\ [][gs'.cavitationEvents >= gs.cavitationEvents]_vars
  /\ [][(last'.op = "tick" /\ gs.settings.hydraulicFailure /\ gs'.xylemIntegrity < gs.xylemIntegrity) =>
          gs'.cavitationEvents = gs.cavitationEvents + 1]_vars

\* no step lowers cavitationEvents
C30_EventsNeverDecrease == [][gs'.cavitationEvents >= gs.cavitationEvents]_vars

\* the bonus that updateMycorrhizae derives from a colonisation value
BonusOf(g, colonisation) ==
  Mul(Mul(colonisation \div M, SEEDS[g.seed].mycorrhizalAffinity), BIOMES[g.biome].fungalNetwork)

\* the state on which the mycorrhizae step of a tick runs
AtMycorrhizae(g, rnd) == cambiumStep(lifeCycleStep(AtLifeCycle(g, rnd)))

\* the fungi die back in the tick that runs its mycorrhizae step on k
DiesBack(k) == rootMass(k) >= 10000 /\ k.health < 20000 /\ k.tick % 30 = 0

\* C31: with mycorrhizae enabled, after every tick mycorrhizalBonus is
\* colonisation * affinity * fungalNetwork for the colonisation the tick has left
C31_BonusMatchesColonisation ==
  (gs.tick > 0 /\ gs.settings.mycorrhizae) =>
     gs.mycorrhizalBonus = BonusOf(gs, gs.mycorrhizalColonisation)

\* what the ticks do: a tick whose root mass is at least 10 sets the bonus from the
\* colonisation as it is before the die-back of that tick, a tick whose root mass is
\* below 10 leaves bonus and colonisation alone
C31_BonusFromColonisationBeforeDieBack ==
  [][(last'.op = "tick" /\ gs.settings.mycorrhizae) =>
       \E rnd \in RndSet :
          /\ gs' = simulateTick(gs, rnd)
          /\ IF rootMass(AtMycorrhizae(gs, rnd)) < 10000
             THEN /\ gs'.mycorrhizalBonus = gs.mycorrhizalBonus
                  /\ gs'.mycorrhizalColonisation = gs.mycorrhizalColonisation
             ELSE gs'.mycorrhizalBonus =
                    BonusOf(gs, IF DiesBack(AtMycorrhizae(gs, rnd))
                                THEN gs'.mycorrhizalColonisation + 20000
                                ELSE gs'.mycorrhizalColonisation)]_vars

\* the state on which the cambium step of a tick runs
AtCambium(g, rnd) == lifeCycleStep(AtLifeCycle(g, rnd))

\* the cambium step counts the rings of k: a woody seed that is not dormant
CambiumActive(k) == SEEDS[k.seed].cambiumRate # 0 /\ ~k.dormant

\* C32: with cambium growth enabled, after every tick growthRings is floor(ageInDays / 360),
\* for every seed and also while the plant is dormant
C32_RingsFollowAge ==
  (gs.tick > 0 /\ gs.settings.cambiumGrowth) =>
     gs.plant.growthRings = gs.plant.ageInDays \div 360

\* what the ticks do: the rings are counted only in a tick whose cambium step finds a woody
\* plant that is not dormant; every other tick leaves growthRings alone
C32_RingsCountedWhileActive ==
  [][(last'.op = "tick" /\ gs.settings.cambiumGrowth) =>
       \E rnd \in RndSet :
          /\ gs' = simulateTick(gs, rnd)
          /\ gs'.plant.growthRings =
                IF CambiumActive(AtCambium(gs, rnd))
                THEN gs'.plant.ageInDays \div 360
                ELSE gs.plant.growthRings]_vars

\* a dormant plant has reached its 360th day without a ring
C32_DormantYear ==
  gs.dormant /\ gs.settings.cambiumGrowth /\ gs.plant.ageInDays = 360 /\ gs.plant.growthRings = 0

\* C33: after lifeComplete has become true the loop applies no further tick to that
\* state, whatever speed the player selects; only a restart replaces the state
C33_NoTickAfterLifeComplete ==
  [][(gs # NoGame /\ gs.lifeComplete) => (gs' = NoGame \/ gs'.tick = gs.tick)]_vars

\* what the controller does: it pauses the game once, when it first sees lifeComplete
C33_PausedWhenFirstSeen ==
  [][(gs # NoGame /\ gs' # NoGame /\ ~gs.lifeComplete /\ gs'.lifeComplete) =>
       (gs'.paused /\ gs'.speed = 0 /\ game'.speed = -1 /\ game'.lifecompleteShown)]_vars

\* a completed annual has been ticked on after the player selected a speed
C33_TickedOn ==
  /\ gs # NoGame
  /\ gs.lifeComplete /\ ~gs.paused
  /\ gs.tick > 2700
  /\ game.lifecompleteShown

\* C34: under every interleaving of speed clicks, restarts, canvas clicks and
\* animation-frame callbacks at most one loop callback is pending, simulateTick is applied
\* only to a state that is not paused, and a callback applies at most one tick
C34_OneLoopChain ==
  /\ Cardinality(game.pending) <= 1
  /\ game.pending \subseteq {game.loopHandle}
  /\ game.pausedTicks = 0
  /\ game.applied <= 1
  /\ gs = NoGame => game.pending = {}

\* the player has changed the speed of a running game whose callback was pending: the
\* handler has applied a tick and one callback, the new one, is pending
C34_Witness ==
  /\ last.op = "speed" /\ last.type # -1
  /\ game.issued >= 2
  /\ game.applied = 1
  /\ game.pending = {game.issued}
  /\ gs # NoGame /\ ~gs.paused

\* C35: in every state reached by ticks herbivorePressure is at most 0.8, below the 0.85
\* that scars a trunk, and plant.scarredTrunk is false
C35_NoTrunkScar ==
  /\ gs.herbivorePressure <= 800
  /\ ~gs.plant.scarredTrunk

\* the wildflower with a trunk of 16 at tick 899
GrazerState == Grown(GrazerStart)[1]

\* a grazer has attacked the trunk at tick 900 with pressure 0.8, which is 0.785 after
\* the tick: the trunk has lost girth and has no scar
C35_Witness ==
  /\ ~GrazerState.herbivoreEvent
  /\ GrazerState.plant.trunkHeight > 15000
  /\ last.op = "tick"
  /\ gs.tick = 900
  /\ gs.seed = GrazerState.seed
  /\ gs.herbivoreEvent
  /\ gs.herbivorePressure = 800 - 15
  /\ gs.plant.trunkGirth < GrazerState.plant.trunkGirth
  /\ ~gs.plant.scarredTrunk

\* the state on which the flowering step of a tick runs
AtFlowering(g, rnd) == structure(physiology(g, rnd))

\* C36: with flowering enabled, in every state after a tick flowering = true implies
\* flowerProgress = 100
C36_FloweringAtFullProgress ==
  (gs.tick > 0 /\ gs.settings.flowering /\ gs.flowering) => gs.plant.flowerProgress = 100000

\* the rest of the statement: pollinated is false in every state, seedsProduced never
\* decreases, and it increases only in a tick whose flowering step ran in the flowering
\* season with flowering true at its pollination step, and that tick ends the flowering
C36_SeedsOnlyFromFlowers ==
  /\ [](~gs.plant.pollinated)
  /\ [][gs'.plant.seedsProduced >= gs.plant.seedsProduced]_vars
  /\ [][(last'.op = "tick" /\ gs'.plant.seedsProduced > gs.plant.seedsProduced) =>
          \E rnd \in RndSet :
             /\ gs' = simulateTick(gs, rnd)
             /\ gs.settings.flowering
             /\ updateFlowering(AtFlowering(gs, rnd), 999).flowering
             /\ ~gs'.flowering /\ gs'.plant.flowerProgress = 0]_vars

\* the wildflower is still in flower in autumn, with its progress falling
C36_FadingFlower ==
  /\ last.op = "tick"
  /\ gs.settings.flowering
  /\ gs.season = 2
  /\ gs.flowering
  /\ gs.plant.flowerProgress < 100000

\* the wildflower in flower has been pollinated in a tick of the exploration
C36_Pollinated ==
  /\ last.op = "tick"
  /\ gs.tick = 1789
  /\ gs.plant.seedsProduced > 0
  /\ ~gs.flowering /\ gs.plant.flowerProgress = 0

\* C37: whenever rootDepth >= 1 after a tick (a taproot of length rootDepth * 2.6 >= 2.5),
\* rootGraph.taproot holds at least one segment
C37_TaprootShown ==
  (gs.tick > 0 /\ gs.plant.rootDepth >= 1000) => Len(gs.plant.rootGraph.taproot) >= 1

\* what the ticks do: the taproot collection is built only in a tick that raises
\* taprootDepth, from the rootDepth of that tick, and it is empty when that rootDepth
\* gives a length below 2.5; every other tick keeps the number of its segments
C37_TaprootBuiltAtDepthLevels ==
  [][last'.op = "tick" =>
       IF gs'.plant.rootGraph.taprootDepth > gs.plant.rootGraph.taprootDepth
       THEN (Len(gs'.plant.rootGraph.taproot) >= 1) <=> (Mul(gs'.plant.rootDepth, 2600) >= 2500)
       ELSE Len(gs'.plant.rootGraph.taproot) = Len(gs.plant.rootGraph.taproot)]_vars

\* a plant whose first tick found a rootDepth too short for a segment has grown its
\* rootDepth past 1 and still shows no taproot
C37_HiddenTaproot ==
  /\ last.op = "tick"
  /\ gs.plant.rootDepth >= 1000 /\ gs.plant.rootDepth < 22000
  /\ gs.plant.rootGraph.taprootDepth = 1
  /\ gs.plant.rootGraph.taproot = <<>>

\* C38: the counters surfaceArms, structuralArms and taprootDepth never decrease, also
\* when rootSpread or rootStructural shrink; surfaceArms <= 8, structuralArms <= 6,
\* taprootDepth <= 4; and in every state the surface collection holds 7 segments per
\* surface arm and the structural collection 3 segments per structural arm
C38_RootCounters ==
  /\ [][/\ gs'.plant.rootGraph.surfaceArms >= gs.plant.rootGraph.surfaceArms
        /\ gs'.plant.rootGraph.structuralArms >= gs.plant.rootGraph.structuralArms
        /\ gs'.plant.rootGraph.taprootDepth >= gs.plant.rootGraph.taprootDepth]_vars
  /\ [](/\ gs.plant.rootGraph.surfaceArms <= 8
        /\ gs.plant.rootGraph.structuralArms <= 6
        /\ gs.plant.rootGraph.taprootDepth <= 4
        /\ Len(gs.plant.rootGraph.surface) = 7 * gs.plant.rootGraph.surfaceArms
        /\ Len(gs.plant.rootGraph.structural) = 3 * gs.plant.rootGraph.structuralArms)

\* the willow in the flood at tick 908
ShrunkState == Grown(ShrunkStart)[1]

\* the flood has taken rootSpread below the 12 of the first arm: the arm and its seven
\* segments are still there
C38_Witness ==
  /\ ShrunkState.plant.rootSpread >= 12000
  /\ ShrunkState.plant.rootGraph.surfaceArms = 1
  /\ last.op = "tick"
  /\ gs.tick = 910
  /\ gs.activeWeatherEvent = "flood"
  /\ gs.plant.rootSpread < 12000
  /\ gs.plant.rootGraph.surfaceArms = 1
  /\ Len(gs.plant.rootGraph.surface) = 7
====
